---- MODULE Spec2Model ----
(***************************************************************************)
(* A model of the PS-RISK-AI chat proxy:                                   *)
(*   - the browser-side chat session controller (sendMessage and its       *)
(*     helpers, src/unnamed/part_002), specification Spec / FairSpec;      *)
(*   - the server-side /api/chat handler with its dual-model invocation    *)
(*     policy (src/server.js), specification ServerSpec.                   *)
(*                                                                         *)
(* Text is modelled as a sequence of atoms.  An atom is a TLA+ string that *)
(* stands for one lexeme of the text: a structural JSON character, a       *)
(* quote, a blank, a line break, or a run of other characters.  Atoms are  *)
(* ASCII; the Japanese literals of the source are written as ASCII tags.   *)
(***************************************************************************)
EXTENDS Integers, Sequences, FiniteSets, TLC

(***************************************************************************)
(* Text helpers (String.prototype.trim / trimStart, prefix and suffix)     *)
(***************************************************************************)
\* The one element of a singleton set.  In The({e(x) : x \in {d}}) the value d
\* is computed once, however often e uses x.
The(S) == CHOOSE x \in S : TRUE

NL == "\n"
QUOTE == "\""
CR == "\r"
WhiteSpace == {" ", NL, CR}

RECURSIVE TrimStart(_)
TrimStart(s) ==
  IF s # <<>> /\ Head(s) \in WhiteSpace THEN TrimStart(Tail(s)) ELSE s

\* The length of s[1..n] without its trailing white space.
RECURSIVE TrimmedLen(_, _)
TrimmedLen(s, n) ==
  IF n > 0 /\ s[n] \in WhiteSpace THEN TrimmedLen(s, n - 1) ELSE n

TrimEnd(s) == SubSeq(s, 1, TrimmedLen(s, Len(s)))

Trim(s) == The({ TrimEnd(x) : x \in {TrimStart(s)} })

IsPrefix(p, s) == Len(p) <= Len(s) /\ SubSeq(s, 1, Len(p)) = p
IsSuffix(p, s) == Len(p) <= Len(s) /\ SubSeq(s, Len(s) - Len(p) + 1, Len(s)) = p

(***************************************************************************)
(* JavaScript values, as far as the handlers look at them.                 *)
(***************************************************************************)
Undef == [t |-> "undef"]
Null == [t |-> "null"]
Bool(b) == [t |-> "bool", b |-> b]
Num(n) == [t |-> "num", n |-> n]
Str(s) == [t |-> "str", s |-> s]
Arr(a) == [t |-> "arr", a |-> a]
Obj(k, o) == [t |-> "obj", k |-> k, o |-> o]
EmptyObj == Obj(<<>>, <<>>)

\* v.key (for null and undefined: v?.key).  A property name is the one-atom
\* text <<key>>; a later duplicate key wins.
Get(v, key) ==
  IF v.t = "obj" /\ \E i \in 1..Len(v.k) : v.k[i] = <<key>>
  THEN v.o[CHOOSE i \in 1..Len(v.k) :
             v.k[i] = <<key>> /\ \A j \in (i + 1)..Len(v.k) : v.k[j] # <<key>>]
  ELSE Undef

\* v?.[i] for a zero-based index i: an element of an array, the property
\* named by the digits of i of an object, a piece of a string (which has no
\* properties of its own).
At(v, i) ==
  CASE v.t = "arr" -> IF i + 1 \in 1..Len(v.a) THEN v.a[i + 1] ELSE Undef
    [] v.t = "obj" -> Get(v, ToString(i))
    [] v.t = "str" -> IF i + 1 \in 1..Len(v.s) THEN Str(<<v.s[i + 1]>>) ELSE Undef
    [] OTHER -> Undef

IsString(v) == v.t = "str"
IsArray(v) == v.t = "arr"

Truthy(v) ==
  CASE v.t = "str" -> v.s # <<>>
    [] v.t = "num" -> v.n # "0"
    [] v.t = "bool" -> v.b
    [] v.t \in {"obj", "arr"} -> TRUE
    [] OTHER -> FALSE

(***************************************************************************)
(* JSON.parse over atom sequences.  Outside a string literal only the      *)
(* structural atoms, blanks, line breaks, number atoms and the literals    *)
(* null / true / false are accepted; inside a string literal every atom    *)
(* but the quote, the backslash and the (control character) line break.    *)
(* A parse step returns [ok, v, rest].                                     *)
(***************************************************************************)
NumAtoms == {"0", "5"}
Fail == [ok |-> FALSE, v |-> Undef, rest |-> <<>>]
Ok(v, rest) == [ok |-> TRUE, v |-> v, rest |-> rest]

SkipWs(s) == TrimStart(s)

\* s starts right after the opening quote; acc is the content read so far.
RECURSIVE ParseStringBody(_, _)
ParseStringBody(s, acc) ==
  IF s = <<>> THEN Fail
  ELSE IF Head(s) = QUOTE THEN Ok(Str(acc), Tail(s))
  ELSE IF Head(s) \in {NL, "\\"} THEN Fail
  ELSE ParseStringBody(Tail(s), Append(acc, Head(s)))

RECURSIVE ParseValue(_)
RECURSIVE ParseMembers(_, _, _)
RECURSIVE ParseElements(_, _)

\* s starts at the first member of an object (after "{" or ",").
ParseMembers(s, ks, vs) ==
  The({ IF s1 = <<>> \/ Head(s1) # QUOTE THEN Fail
        ELSE The({ LET s2 == SkipWs(key.rest) IN
                   IF ~key.ok \/ s2 = <<>> \/ Head(s2) # ":" THEN Fail
                   ELSE The({ LET s3 == SkipWs(val.rest)
                                  ks1 == Append(ks, key.v.s)
                                  vs1 == Append(vs, val.v)
                              IN IF ~val.ok \/ s3 = <<>> THEN Fail
                                 ELSE IF Head(s3) = "}"
                                 THEN Ok(Obj(ks1, vs1), Tail(s3))
                                 ELSE IF Head(s3) = ","
                                 THEN ParseMembers(Tail(s3), ks1, vs1)
                                 ELSE Fail
                              : val \in {ParseValue(Tail(s2))} })
                   : key \in {ParseStringBody(Tail(s1), <<>>)} })
        : s1 \in {SkipWs(s)} })

\* s starts at the first element of an array (after "[" or ",").
ParseElements(s, vs) ==
  The({ LET s1 == SkipWs(val.rest)
            vs1 == Append(vs, val.v)
        IN IF ~val.ok \/ s1 = <<>> THEN Fail
           ELSE IF Head(s1) = "]" THEN Ok(Arr(vs1), Tail(s1))
           ELSE IF Head(s1) = "," THEN ParseElements(Tail(s1), vs1)
           ELSE Fail
        : val \in {ParseValue(s)} })

ParseValue(s) ==
  The({ IF s1 = <<>> THEN Fail
        ELSE LET c == Head(s1)
                 r == Tail(s1)
             IN CASE c = QUOTE -> ParseStringBody(r, <<>>)
                  [] c = "{" -> IF SkipWs(r) # <<>> /\ Head(SkipWs(r)) = "}"
                                THEN Ok(EmptyObj, Tail(SkipWs(r)))
                                ELSE ParseMembers(r, <<>>, <<>>)
                  [] c = "[" -> IF SkipWs(r) # <<>> /\ Head(SkipWs(r)) = "]"
                                THEN Ok(Arr(<<>>), Tail(SkipWs(r)))
                                ELSE ParseElements(r, <<>>)
                  [] c = "null" -> Ok(Null, r)
                  [] c = "true" -> Ok(Bool(TRUE), r)
                  [] c = "false" -> Ok(Bool(FALSE), r)
                  [] c \in NumAtoms -> Ok(Num(c), r)
                  [] OTHER -> Fail
        : s1 \in {SkipWs(s)} })

\* JSON.parse(text): [ok |-> FALSE] stands for the SyntaxError it throws.
JsonParse(s) ==
  The({ IF p.ok /\ SkipWs(p.rest) = <<>> THEN [ok |-> TRUE, v |-> p.v]
        ELSE [ok |-> FALSE, v |-> Undef]
        : p \in {ParseValue(s)} })

\* String(v), for the values that reach a text node or an Error message.
ToText(v) ==
  CASE v.t = "str" -> v.s
    [] v.t = "num" -> <<v.n>>
    [] v.t = "bool" -> IF v.b THEN <<"true">> ELSE <<"false">>
    [] v.t = "null" -> <<"null">>
    [] v.t = "undef" -> <<"undefined">>
    [] v.t = "arr" -> <<"[array]">>
    [] OTHER -> <<"[object Object]">>

\* response.ok of the Fetch API.
StatusOk(status) == status \in 200..299

(***************************************************************************)
(* Bounds of the model                                                     *)
(***************************************************************************)
\* sendMessage invocations in a session (accepted and rejected)
MaxCalls == 3
\* /api/chat requests served by the server
MaxRequests == 2

(***************************************************************************)
(* The chat session controller (src/unnamed/part_002)                      *)
(***************************************************************************)
VARIABLES
  conversation,  \* const conversation = []: the history, entries {role, text}
  entryTurn,     \* history bookkeeping: the turn (index in frames) that pushed
                 \* each entry of conversation, 0 for the welcome entry
  busy,          \* let busy
  inputDisabled, \* input.disabled and the submit button's disabled
  messagesEl,    \* the children of #messages: bubbles {id, role, thinking, html}
  statusBar,     \* what renderStatus last showed: {text, variant}
  frames,        \* the sendMessage invocations that passed the guard:
                 \* {trimmed, thinking, pc, response}
  fetches,       \* the bodies of the /api/chat requests issued, in order
  calls          \* the sendMessage invocations so far, accepted or not:
                 \* {trimmed, busy}, the text and the busy flag at the call

clientVars == <<conversation, entryTurn, busy, inputDisabled, messagesEl,
                statusBar, frames, fetches, calls>>

\* The literal texts of the controller, as ASCII tags.
Welcome == <<"WELCOME-1", NL, NL, "WELCOME-2">>
FallbackMessage == <<"NO-REPLY-RETRY-LATER">>
ErrorApology == <<"ERROR-TRY-AGAIN-LATER">>
DefaultSuccessStatus == <<"ANSWERED-BY-GEMINI">>
DefaultErrorStatus == <<"UNEXPECTED-ERROR">>
FormalPreface == "SHOUCHI-ITASHIMASHITA."
DisplayCap == 6000

\* What the user may type: empty, blank, and a text with blanks around it.
RawTexts == { <<>>, <<" ", NL>>, <<" ", "b", " ">> }

\* What fetch("/api/chat") may settle with: a rejection (network failure) or a
\* response {status, body}, the body an atom sequence response.json() parses.
ReplyBody(reply, notice) ==
  <<"{", QUOTE, "reply", QUOTE, ":", QUOTE>> \o reply \o
  <<QUOTE, ",", QUOTE, "notice", QUOTE, ":", QUOTE>> \o notice \o <<QUOTE, "}">>
ClientResponses ==
  { [status |-> 200, body |-> ReplyBody(<<"r">>, <<"m1 answered">>)],
    [status |-> 200, body |-> ReplyBody(<<FormalPreface, "x", " ", "s">>, <<>>)],
    [status |-> 200, body |-> <<"{", "}">>],
    [status |-> 200, body |-> <<"{", QUOTE, "reply", QUOTE, ":", "5", "}">>],
    [status |-> 200, body |-> <<"<html>">>],
    [status |-> 500, body |-> <<"{", QUOTE, "error", QUOTE, ":", QUOTE, "boom", QUOTE, "}">>],
    [status |-> 502, body |-> <<"<html>">>] }

\* removeFormalPreface: /^PREFACE[^\n]*\n?/ replaced by "", then trimStart().
RECURSIVE DropToLineEnd(_)
DropToLineEnd(s) ==
  IF s = <<>> THEN s
  ELSE IF Head(s) = NL THEN Tail(s)
  ELSE DropToLineEnd(Tail(s))

RemoveFormalPreface(text) ==
  The({ TrimStart(IF t # <<>> /\ Head(t) = FormalPreface
                  THEN DropToLineEnd(Tail(t))
                  ELSE t)
        : t \in {text} })

\* A cap of 0 or less that never reports a truncation.
LimitMarkdownUnflagged(text, maxChars) ==
  The({ IF Len(t) = 0 \/ maxChars <= 0
        THEN [text |-> <<>>, truncated |-> FALSE]
        ELSE IF Len(t) <= maxChars
        THEN [text |-> t, truncated |-> FALSE]
        ELSE [text |-> TrimEnd(SubSeq(t, 1, maxChars)), truncated |-> TRUE]
        : t \in {text} })

\* The cut without the trimEnd of what is kept.
LimitMarkdownUntrimmed(text, maxChars) ==
  The({ IF Len(t) = 0 \/ maxChars <= 0
        THEN [text |-> <<>>, truncated |-> Len(t) > 0]
        ELSE IF Len(t) <= maxChars
        THEN [text |-> t, truncated |-> FALSE]
        ELSE [text |-> SubSeq(t, 1, maxChars), truncated |-> TRUE]
        : t \in {text} })

\* limitMarkdown(text, maxChars): one atom counts as one character.
LimitMarkdown(text, maxChars) ==
  The({ IF Len(t) = 0 \/ maxChars <= 0
        THEN [text |-> <<>>, truncated |-> Len(t) > 0]
        ELSE IF Len(t) <= maxChars
        THEN [text |-> t, truncated |-> FALSE]
        ELSE [text |-> TrimEnd(SubSeq(t, 1, maxChars)), truncated |-> TRUE]
        : t \in {text} })

(***************************************************************************)
(* The markdown renderer.  A text is a sequence of characters (one atom     *)
(* each); the HTML a block parser run produces is the sequence of the       *)
(* strings pushed onto its html array, each kept as the literal markup      *)
(* around the argument of the function that fills it.                       *)
(***************************************************************************)
\* escapeHtml(value): the five replacements, character by character.
EscapeChar(c) ==
  CASE c = "&" -> <<"&", "a", "m", "p", ";">>
    [] c = "<" -> <<"&", "l", "t", ";">>
    [] c = ">" -> <<"&", "g", "t", ";">>
    [] c = QUOTE -> <<"&", "q", "u", "o", "t", ";">>
    [] c = "'" -> <<"&", "#", "3", "9", ";">>
    [] OTHER -> <<c>>
RECURSIVE EscapeFrom(_, _)
EscapeFrom(s, i) == IF i > Len(s) THEN <<>> ELSE EscapeChar(s[i]) \o EscapeFrom(s, i + 1)
EscapeHtml(value) == EscapeFrom(value, 1)

\* source.replace(/\r\n/g, "\n")
RECURSIVE NormalizeFrom(_, _)
NormalizeFrom(s, i) ==
  IF i > Len(s) THEN <<>>
  ELSE IF s[i] = CR /\ i < Len(s) /\ s[i + 1] = NL THEN NormalizeFrom(s, i + 1)
  ELSE <<s[i]>> \o NormalizeFrom(s, i + 1)
Normalize(source) == NormalizeFrom(source, 1)

\* normalized.split("\n"): the lines from character i on, cur being the line
\* read so far; the empty text has one (empty) line.
RECURSIVE SplitFrom(_, _, _)
SplitFrom(s, i, cur) ==
  IF i > Len(s) THEN <<cur>>
  ELSE IF s[i] = NL THEN <<cur>> \o SplitFrom(s, i + 1, <<>>)
  ELSE SplitFrom(s, i + 1, Append(cur, s[i]))
SplitLines(s) == SplitFrom(s, 1, <<>>)

\* array.join(sep)
RECURSIVE JoinFrom(_, _, _)
JoinFrom(parts, i, sep) ==
  IF i > Len(parts) THEN <<>>
  ELSE IF i = Len(parts) THEN parts[i]
  ELSE parts[i] \o sep \o JoinFrom(parts, i + 1, sep)
Join(parts, sep) == JoinFrom(parts, 1, sep)

\* The length of the longest prefix of s made of characters of set.
RECURSIVE RunFrom(_, _, _)
RunFrom(s, i, set) == IF i <= Len(s) /\ s[i] \in set THEN RunFrom(s, i + 1, set) ELSE i - 1
RunLen(s, set) == RunFrom(s, 1, set)

\* The backtick character.
BACKTICK == "BACKTICK"
Digits == {"0", "1", "2", "3", "4", "5", "6", "7", "8", "9"}

\* ---------------------------------------------------------------------
\* Inline formatting: sanitizeUrl and formatInline. Their output is a
\* sequence of atoms: a tag written by the code is one atom ("<strong>"),
\* a character that comes from the text is a one-character atom.
\* ---------------------------------------------------------------------

\* The /i flag of sanitizeUrl's pattern, on the letters of its schemes.
LowerChar(c) ==
  CASE c = "H" -> "h" [] c = "T" -> "t" [] c = "P" -> "p" [] c = "S" -> "s"
    [] c = "M" -> "m" [] c = "A" -> "a" [] c = "I" -> "i" [] c = "L" -> "l"
    [] c = "O" -> "o" [] OTHER -> c
Lower(s) == [k \in 1..Len(s) |-> LowerChar(s[k])]

\* /^(https?:|mailto:)/
Schemes ==
  { <<"h", "t", "t", "p", ":">>, <<"h", "t", "t", "p", "s", ":">>,
    <<"m", "a", "i", "l", "t", "o", ":">> }
Placeholder == <<"#">>

SanitizeUrlUntested(url) ==
  The({ EscapeHtml(trimmed) : trimmed \in {Trim(url)} })
SanitizeUrl(url) ==
  The({ IF \E scheme \in Schemes : IsPrefix(scheme, Lower(trimmed))
        THEN EscapeHtml(trimmed) ELSE Placeholder
        : trimmed \in {Trim(url)} })

\* The nesting bound of formatInline.
DepthLimit == 4
ExceedsDepthNever(depth) == FALSE
ExceedsDepth(depth) == depth > DepthLimit

\* s has p at index i.
HasAt(s, i, p) ==
  /\ i >= 1
  /\ i + Len(p) - 1 <= Len(s)
  /\ SubSeq(s, i, i + Len(p) - 1) = p

\* The last index of the longest run of characters other than stop that
\* starts at i (i - 1: the run is empty).
RECURSIVE RunUntil(_, _, _)
RunUntil(s, i, stop) ==
  IF i > Len(s) \/ s[i] = stop THEN i - 1 ELSE RunUntil(s, i + 1, stop)

\* open [^stop]+ close at index i: the index of its last character, 0 when
\* it does not match. The run is greedy, and a shorter run would have to be
\* followed by stop, which the run's own characters are not.
Delimited(s, i, open, stop, close) ==
  IF ~HasAt(s, i, open) THEN 0
  ELSE The({ IF j >= i + Len(open) /\ HasAt(s, j + 1, close)
             THEN j + Len(close) ELSE 0
             : j \in {RunUntil(s, i + Len(open), stop)} })

\* \[[^\]]+\]\([^)]+\) at index i.
LinkAt(s, i) ==
  The({ IF paren = 0 THEN 0 ELSE Delimited(s, paren, <<"(">>, ")", <<")">>)
        : paren \in {Delimited(s, i, <<"[">>, "]", <<"]", "(">>)} })

\* The alternatives of pattern in their order; the first that matches at i
\* gives the match.
Alternatives(s, i) ==
  << Delimited(s, i, <<"*", "*">>, "*", <<"*", "*">>),
     Delimited(s, i, <<"_", "_">>, "_", <<"_", "_">>),
     Delimited(s, i, <<"*">>, "*", <<"*">>),
     Delimited(s, i, <<"_">>, "_", <<"_">>),
     Delimited(s, i, <<BACKTICK>>, BACKTICK, <<BACKTICK>>),
     LinkAt(s, i) >>
MatchAt(s, i) ==
  The({ IF \A a \in 1..Len(ends) : ends[a] = 0 THEN 0
        ELSE ends[CHOOSE a \in 1..Len(ends) :
                    ends[a] # 0 /\ \A b \in 1..(a - 1) : ends[b] = 0]
        : ends \in {Alternatives(s, i)} })

\* pattern.exec from index i: the leftmost match as [index, last], index 0
\* for null.
RECURSIVE Exec(_, _)
Exec(s, i) ==
  IF i > Len(s) THEN [index |-> 0, last |-> 0]
  ELSE The({ IF last # 0 THEN [index |-> i, last |-> last] ELSE Exec(s, i + 1)
             : last \in {MatchAt(s, i)} })

\* A token of formatInline; from and to are the range of the text it was cut
\* from (the code does not keep them).
TextToken(s, from, to) ==
  [type |-> "text", value |-> SubSeq(s, from, to), href |-> <<>>,
   from |-> from, to |-> to]

Inner(token, n) == SubSeq(token, n + 1, Len(token) - n)
Wrapped(token, marker) == IsPrefix(marker, token) /\ IsSuffix(marker, token)

\* The label and the href of /^\[([^\]]+)\]\(([^)]+)\)$/.
LinkLabel(token) == SubSeq(token, 2, RunUntil(token, 2, "]"))
LinkHref(token) ==
  SubSeq(token, RunUntil(token, 2, "]") + 3, Len(token) - 1)

Classify(s, from, to) ==
  The({ IF Wrapped(token, <<"*", "*">>) \/ Wrapped(token, <<"_", "_">>)
        THEN [type |-> "strong", value |-> Inner(token, 2), href |-> <<>>,
              from |-> from, to |-> to]
        ELSE IF Wrapped(token, <<"*">>) \/ Wrapped(token, <<"_">>)
        THEN [type |-> "em", value |-> Inner(token, 1), href |-> <<>>,
              from |-> from, to |-> to]
        ELSE IF Wrapped(token, <<BACKTICK>>)
        THEN [type |-> "code", value |-> Inner(token, 1), href |-> <<>>,
              from |-> from, to |-> to]
        ELSE IF LinkAt(token, 1) = Len(token)
        THEN [type |-> "link", value |-> LinkLabel(token),
              href |-> LinkHref(token), from |-> from, to |-> to]
        ELSE TextToken(s, from, to)
        : token \in {SubSeq(s, from, to)} })

\* The text between the previous match and this one.
GapDropped(s, lastIndex, index) == <<>>
Gap(s, lastIndex, index) ==
  IF index - 1 > lastIndex THEN <<TextToken(s, lastIndex + 1, index - 1)>>
  ELSE <<>>

\* The loop of formatInline and the text left after it; lastIndex counts the
\* characters already passed.
RECURSIVE TokensFrom(_, _)
TokensFrom(s, lastIndex) ==
  The({ IF match.index = 0
        THEN (IF lastIndex < Len(s)
              THEN <<TextToken(s, lastIndex + 1, Len(s))>> ELSE <<>>)
        ELSE Gap(s, lastIndex, match.index)
               \o <<Classify(s, match.index, match.last)>>
               \o TokensFrom(s, match.last)
        : match \in {Exec(s, lastIndex + 1)} })
Tokenize(s) == TokensFrom(s, 0)

AnchorOpen == "<a href=\""
AnchorAttrs == "\" target=\"_blank\" rel=\"noopener noreferrer\">"

RECURSIVE ConcatFrom(_, _)
ConcatFrom(parts, i) ==
  IF i > Len(parts) THEN <<>> ELSE parts[i] \o ConcatFrom(parts, i + 1)
Concat(parts) == ConcatFrom(parts, 1)

\* formatInline as [html, depths]: html is what it returns, depths the
\* depths at which this call and the calls below it ran the tokenizer.
RECURSIVE Inline(_, _)
CodeTokenRaw(token) == <<"<code>">> \o token.value \o <<"</code>">>
CodeToken(token) == <<"<code>">> \o EscapeHtml(token.value) \o <<"</code>">>
Span(open, inner, close) ==
  [html |-> <<open>> \o inner.html \o <<close>>, depths |-> inner.depths]
Anchor(token, inner) ==
  [html |-> <<AnchorOpen>> \o SanitizeUrl(token.href) \o <<AnchorAttrs>>
              \o (IF inner.html # <<>> THEN inner.html
                  ELSE EscapeHtml(token.value))
              \o <<"</a>">>,
   depths |-> inner.depths]
RenderToken(token, depth) ==
  CASE token.type = "strong" ->
         Span("<strong>", Inline(token.value, depth + 1), "</strong>")
    [] token.type = "em" ->
         Span("<em>", Inline(token.value, depth + 1), "</em>")
    [] token.type = "code" -> [html |-> CodeToken(token), depths |-> {}]
    [] token.type = "link" -> Anchor(token, Inline(token.value, depth + 1))
    [] OTHER -> [html |-> EscapeHtml(token.value), depths |-> {}]
Inline(text, depth) ==
  IF ExceedsDepth(depth) THEN [html |-> EscapeHtml(text), depths |-> {}]
  ELSE IF text = <<>> THEN [html |-> <<>>, depths |-> {}]
  ELSE The({ [html |-> Concat([k \in 1..Len(spans) |-> spans[k].html]),
              depths |-> {depth} \cup
                         UNION { spans[k].depths : k \in 1..Len(spans) }]
             : spans \in { [k \in 1..Len(tokens) |->
                             RenderToken(tokens[k], depth)]
                           : tokens \in {Tokenize(text)} } })
FormatInline(text, depth) == Inline(text, depth).html

\* The strings pushed onto html.
Markup(tag) == [open |-> tag, via |-> "literal", arg |-> <<>>, close |-> ""]
InlineBlock(open, text, close) ==
  [open |-> open, via |-> "formatInline", arg |-> FormatInline(text, 0),
   close |-> close]
EscapedBlock(open, text, close) ==
  [open |-> open, via |-> "escapeHtml", arg |-> EscapeHtml(text), close |-> close]

\* The locals of markdownToHtml when its loop starts (fence <<>>: null,
\* listType "": null).
ParserStart ==
  [html |-> <<>>, paragraph |-> <<>>, listType |-> "", inBlockquote |-> FALSE,
   fence |-> <<>>, codeLines |-> <<>>]

\* The declarations at the top of markdownToHtml give each call locals of
\* its own, whatever an earlier call left in its.
ResumeParser(previous) == previous
StartParser(previous) == ParserStart

CloseParagraph(st) ==
  The({ IF s.paragraph = <<>> THEN s
        ELSE [s EXCEPT !.html = Append(@, InlineBlock("<p>", Join(s.paragraph, <<" ">>), "</p>")),
                       !.paragraph = <<>>]
        : s \in {st} })
CloseList(st) ==
  The({ IF s.listType = "" THEN s
        ELSE [s EXCEPT !.html = Append(@, Markup(IF s.listType = "ul" THEN "</ul>" ELSE "</ol>")),
                       !.listType = ""]
        : s \in {st} })
CloseBlockquote(st) ==
  The({ IF ~s.inBlockquote THEN s
        ELSE [s EXCEPT !.html = Append(@, Markup("</blockquote>")), !.inBlockquote = FALSE]
        : s \in {st} })

\* The fenced lines handed to the inline formatter.
CloseCodeBlockInline(st) ==
  The({ IF s.fence = <<>> THEN s
        ELSE [s EXCEPT !.html = Append(@, InlineBlock("<pre><code>", Join(s.codeLines, <<NL>>),
                                                      "</code></pre>")),
                       !.fence = <<>>,
                       !.codeLines = <<>>]
        : s \in {st} })

CloseCodeBlock(st) ==
  The({ IF s.fence = <<>> THEN s
        ELSE [s EXCEPT !.html = Append(@, EscapedBlock("<pre><code>", Join(s.codeLines, <<NL>>),
                                                       "</code></pre>")),
                       !.fence = <<>>,
                       !.codeLines = <<>>]
        : s \in {st} })
\* closeParagraph(); closeList(); closeBlockquote();
CloseOpenBlocks(st) ==
  The({ CloseBlockquote(l) : l \in { CloseList(q) : q \in {CloseParagraph(st)} } })
\* closeParagraph(); closeList();
CloseParagraphAndList(st) == The({ CloseList(q) : q \in {CloseParagraph(st)} })

\* if (fence) { ... continue; }
FenceLine(st, rawLine, line) ==
  IF IsPrefix(st.fence, line) THEN CloseCodeBlock(st)
  ELSE [st EXCEPT !.codeLines = Append(@, rawLine)]

\* /^```/.test(line)
OpensFence(line) == Len(line) >= 3 /\ \A k \in 1..3 : line[k] = BACKTICK

\* line.match(/^(#{1,6})\s+(.*)$/): the level, 0 when the line is no heading.
\* (A line holds no line terminator but a trailing CR, which is trimmed.)
HeadingLevel(line) ==
  The({ IF n \in 1..6 /\ n < Len(line) /\ line[n + 1] \in WhiteSpace THEN n ELSE 0
        : n \in {RunLen(line, {"#"})} })
HeadingTag(level) == "h" \o ToString(level)

\* /^(-{3,}|_{3,}|\*{3,})$/.test(line.trim())
IsRule(line) ==
  \E t \in {Trim(line)} :
    Len(t) >= 3 /\ \E c \in {"-", "_", "*"} : \A k \in 1..Len(t) : t[k] = c

\* line.match(/^[-*+]\s+(.*)$/)
IsUnordered(line) ==
  Len(line) >= 2 /\ line[1] \in {"-", "*", "+"} /\ line[2] \in WhiteSpace
\* line.match(/^(\d+)\.\s+(.*)$/)
IsOrdered(line) ==
  \E d \in {RunLen(line, Digits)} :
    d >= 1 /\ Len(line) >= d + 2 /\ line[d + 1] = "." /\ line[d + 2] \in WhiteSpace
\* The text of a list item: what follows the marker and its white space.
ItemText(line, marker) == TrimStart(SubSeq(line, marker + 1, Len(line)))

\* A list opened for every item.
ListItemAlwaysOpens(st, kind, text) ==
  The({ [opened EXCEPT !.html = Append(@, InlineBlock("<li>", text, "</li>"))]
        : opened \in { [CloseList(closed) EXCEPT
                          !.html = Append(@, Markup(IF kind = "ul" THEN "<ul>" ELSE "<ol>")),
                          !.listType = kind]
                       : closed \in {CloseParagraph(st)} } })

\* A list item of the given kind: the list is opened unless one of that kind
\* is open.
ListItem(st, kind, text) ==
  The({ [opened EXCEPT !.html = Append(@, InlineBlock("<li>", text, "</li>"))]
        : opened \in { IF closed.listType # kind
                       THEN [CloseList(closed) EXCEPT
                               !.html = Append(@, Markup(IF kind = "ul" THEN "<ul>" ELSE "<ol>")),
                               !.listType = kind]
                       ELSE closed
                       : closed \in {CloseParagraph(st)} } })

\* A line that starts with ">".
QuoteLine(st, line) ==
  The({ [quoted EXCEPT !.html = Append(@,
           InlineBlock("<p>",
                       IF Len(line) >= 2 /\ line[2] \in WhiteSpace
                       THEN SubSeq(line, 3, Len(line))
                       ELSE SubSeq(line, 2, Len(line)),
                       "</p>"))]
        : quoted \in { IF closed.inBlockquote THEN closed
                       ELSE [closed EXCEPT !.html = Append(@, Markup("<blockquote>")),
                                           !.inBlockquote = TRUE]
                       : closed \in {CloseParagraphAndList(st)} } })

\* A heading line of the given level.
HeadingLine(st, line, level) ==
  [CloseParagraphAndList(st) EXCEPT
     !.html = Append(@, InlineBlock("<" \o HeadingTag(level) \o ">",
                                    Trim(SubSeq(line, level + 1, Len(line))),
                                    "</" \o HeadingTag(level) \o ">"))]

\* A line outside a fence that opens none, is not blank and is no quote.
PlainLine(out, line) ==
  The({ IF level > 0 THEN HeadingLine(out, line, level)
        ELSE IF IsRule(line)
        THEN [CloseParagraphAndList(out) EXCEPT !.html = Append(@, Markup("<hr>"))]
        ELSE IF IsUnordered(line) THEN ListItem(out, "ul", ItemText(line, 1))
        ELSE IF IsOrdered(line)
        THEN ListItem(out, "ol", ItemText(line, RunLen(line, Digits) + 1))
        ELSE [out EXCEPT !.paragraph = Append(@, line)]
        : level \in {HeadingLevel(line)} })

\* One iteration of "for (const rawLine of lines)".
ConsumeLine(st, rawLine) ==
  The({ IF st.fence # <<>> THEN FenceLine(st, rawLine, line)
        ELSE IF OpensFence(line)
        THEN [CloseOpenBlocks(st) EXCEPT !.fence = Trim(line), !.codeLines = <<>>]
        ELSE IF Trim(line) = <<>> THEN CloseOpenBlocks(st)
        ELSE IF Head(line) = ">" THEN QuoteLine(st, line)
        ELSE The({ PlainLine(out, line) : out \in {CloseBlockquote(st)} })
        : line \in {TrimEnd(rawLine)} })

\* Only the fence and the paragraph closed at the end of the input.
CloseAtEndLeavesList(st) == The({ CloseParagraph(c) : c \in {CloseCodeBlock(st)} })

\* The open blocks closed at the end of the input.
CloseAtEnd(st) == The({ CloseOpenBlocks(c) : c \in {CloseCodeBlock(st)} })

\* The blocks are returned whether or not there are any.
FinishWithoutFallback(st, source) == CloseAtEnd(st).html

\* After the loop: the open blocks are closed, and a run that pushed nothing
\* returns the escaped source as one paragraph.
Finish(st, source) ==
  The({ IF html = <<>> THEN <<EscapedBlock("<p>", source, "</p>")>> ELSE html
        : html \in {CloseAtEnd(st).html} })

RECURSIVE ConsumeAll(_, _, _)
ConsumeAll(st, lines, i) ==
  IF i > Len(lines) THEN st
  ELSE The({ ConsumeAll(next, lines, i + 1) : next \in {ConsumeLine(st, lines[i])} })

\* markdownToHtml(source), for a source that is a string.
MarkdownToHtml(source) ==
  The({ Finish(st, source)
        : st \in { ConsumeAll(ParserStart, lines, 1)
                   : lines \in {SplitLines(Normalize(source))} } })

\* The truncation note formatReply appends.
TruncationNote == Markup("<p class=reply-truncated>TRUNCATED-NOTE</p>")

\* formatReply(raw, {truncated}): the parsed body inside the reply-markdown
\* element, followed by the truncation note when truncated; src is the text
\* handed to the parser.
FormatReply(raw, truncated) ==
  The({ [kind |-> "reply-markdown", src |-> safe, note |-> truncated,
         html |-> MarkdownToHtml(safe) \o (IF truncated THEN <<TruncationNote>> ELSE <<>>)]
        : safe \in {raw} })

\* The innerHTML addMessage gives a plain-text bubble (escaped, \n as <br>).
PlainHtml(content) == [kind |-> "escaped-text", src |-> content, note |-> FALSE]
\* renderThinkingIndicator()
ThinkingIndicator == [kind |-> "thinking-indicator", src |-> <<>>, note |-> FALSE]

\* addMessage: a new bubble element appended to #messages.  The id is the
\* identity of the DOM element (elements are created in sequence).
NextId(list) == Len(list) + 1
AddMessage(list, html, role) ==
  Append(list, [id |-> NextId(list), role |-> role, thinking |-> FALSE, html |-> html])

\* the guard of sendMessage: if (!trimmed || busy) return
RejectsEmptyOnly(trimmed) == trimmed = <<>>
Rejects(trimmed) == trimmed = <<>> \/ busy

\* sendMessage up to its first await: the optimistic user entry, setBusy(true),
\* the pending placeholder, and the fetch with the body serialised at the call.
Dispatch(trimmed) ==
  LET withUser == AddMessage(messagesEl, PlainHtml(trimmed), "user")
      withThinking ==
        [AddMessage(withUser, ThinkingIndicator, "bot")
           EXCEPT ![Len(withUser) + 1].thinking = TRUE]
      pushed == Append(conversation, [role |-> "user", text |-> trimmed])
  IN /\ messagesEl' = withThinking
     /\ conversation' = pushed
     /\ entryTurn' = Append(entryTurn, Len(frames) + 1)
     /\ busy' = TRUE
     /\ inputDisabled' = TRUE
     /\ fetches' = Append(fetches, [message |-> trimmed, history |-> pushed])
     /\ frames' = Append(frames, [trimmed |-> trimmed,
                                  thinking |-> Len(withThinking),
                                  pc |-> "fetch",
                                  response |-> [status |-> 0, body |-> <<>>]])
     /\ UNCHANGED statusBar

SendMessage(rawText) ==
  /\ Len(calls) < MaxCalls
  /\ calls' = Append(calls, [trimmed |-> Trim(rawText), busy |-> busy])
  /\ IF Rejects(Trim(rawText))
     THEN UNCHANGED <<conversation, entryTurn, busy, inputDisabled, messagesEl,
                      statusBar, frames, fetches>>
     ELSE Dispatch(Trim(rawText))

\* The try block after both awaits, for a response that is ok: either the
\* message of the exception thrown, or the reply and the status to show.
TryOk(resp) ==
  The({ IF ~parsed.ok THEN [threw |-> TRUE, message |-> <<"SyntaxError">>]
        ELSE The({ IF parsed.v.t = "null" \/ ~IsString(replyV)
                   THEN [threw |-> TRUE, message |-> <<"TypeError">>]
                   ELSE [threw |-> FALSE,
                         rawReply |-> RemoveFormalPreface(Trim(replyV.s)),
                         status |-> IF Truthy(Get(parsed.v, "notice"))
                                    THEN ToText(Get(parsed.v, "notice"))
                                    ELSE DefaultSuccessStatus]
                   : replyV \in {IF Truthy(Get(parsed.v, "reply"))
                                 THEN Get(parsed.v, "reply")
                                 ELSE Str(FallbackMessage)} })
        : parsed \in {JsonParse(resp.body)} })

\* The branch for a response that is not ok: it always throws.
TryNotOk(resp) ==
  The({ IF data.t = "null" THEN [threw |-> TRUE, message |-> <<"TypeError">>]
        ELSE [threw |-> TRUE,
              message |-> IF Truthy(Get(data, "error"))
                          THEN ToText(Get(data, "error"))
                          ELSE <<"SERVER-ERROR (", ToString(resp.status), ")">>]
        : data \in {The({ IF parsed.ok THEN parsed.v ELSE EmptyObj
                          : parsed \in {JsonParse(resp.body)} })} })

\* What the try block of a turn comes to, for the response it got.
TurnResult(resp) == IF StatusOk(resp.status) THEN TryOk(resp) ELSE TryNotOk(resp)

\* conversation.push({ role: "model", text: rawReply }); limitedReply is the
\* other text in scope there.
ModelEntryOfShown(rawReply, limitedReply) ==
  [role |-> "model", text |-> limitedReply]
ModelEntry(rawReply, limitedReply) == [role |-> "model", text |-> rawReply]

\* The end of the try block: the placeholder becomes the reply, the model
\* entry is pushed, the status bar shows the notice.
SuccessBlock(i, rawReply, status) ==
  The({ [messagesEl |-> [messagesEl EXCEPT
                           ![frames[i].thinking].thinking = FALSE,
                           ![frames[i].thinking].html =
                              FormatReply(limited.text, limited.truncated)],
         conversation |-> Append(conversation, ModelEntry(rawReply, limited.text)),
         entryTurn |-> Append(entryTurn, i),
         statusBar |-> [text |-> status, variant |-> "success"]]
        : limited \in {LimitMarkdown(rawReply, DisplayCap)} })

\* Variants of the catch block with a slip in it.
\* - the apology is also recorded in the history as a model entry
CatchBlockPushesApology(i, message) ==
  LET t == frames[i].thinking
  IN [messagesEl |-> [messagesEl EXCEPT
                        ![t].thinking = FALSE,
                        ![t].html = FormatReply(ErrorApology, FALSE)],
      conversation |-> Append(conversation, [role |-> "model", text |-> ErrorApology]),
      entryTurn |-> Append(entryTurn, i),
      statusBar |-> [text |-> IF message # <<>> THEN message ELSE DefaultErrorStatus,
                     variant |-> "error"]]
\* - the "thinking" class is not removed from the placeholder
CatchBlockLeavesPending(i, message) ==
  LET t == frames[i].thinking
  IN [messagesEl |-> [messagesEl EXCEPT
                        ![t].html = FormatReply(ErrorApology, FALSE)],
      conversation |-> conversation,
      entryTurn |-> entryTurn,
      statusBar |-> [text |-> IF message # <<>> THEN message ELSE DefaultErrorStatus,
                     variant |-> "error"]]
\* - the failed turn's user entry is taken back out of the history
CatchBlockRollsBack(i, message) ==
  LET t == frames[i].thinking
  IN [messagesEl |-> [messagesEl EXCEPT
                        ![t].thinking = FALSE,
                        ![t].html = FormatReply(ErrorApology, FALSE)],
      conversation |-> SubSeq(conversation, 1, Len(conversation) - 1),
      entryTurn |-> SubSeq(entryTurn, 1, Len(entryTurn) - 1),
      statusBar |-> [text |-> IF message # <<>> THEN message ELSE DefaultErrorStatus,
                     variant |-> "error"]]

\* The catch block: the placeholder becomes the apology, the status bar
\* shows the error.
CatchBlock(i, message) ==
  LET t == frames[i].thinking
  IN [messagesEl |-> [messagesEl EXCEPT
                        ![t].thinking = FALSE,
                        ![t].html = FormatReply(ErrorApology, FALSE)],
      conversation |-> conversation,
      entryTurn |-> entryTurn,
      statusBar |-> [text |-> IF message # <<>> THEN message ELSE DefaultErrorStatus,
                     variant |-> "error"]]

\* setBusy(false) at the end of the try block instead of in a finally block.
BusyAfterTry(threw) == threw

\* The finally block: setBusy(false) whether or not the turn threw.
BusyAfterTurn(threw) == FALSE

\* A turn runs from its last await to the end of sendMessage.
FinishTurn(i, threw, out) ==
  /\ messagesEl' = out.messagesEl
  /\ conversation' = out.conversation
  /\ entryTurn' = out.entryTurn
  /\ statusBar' = out.statusBar
  /\ busy' = BusyAfterTurn(threw)
  /\ inputDisabled' = BusyAfterTurn(threw)
  /\ frames' = [frames EXCEPT ![i].pc = "done"]
  /\ UNCHANGED <<fetches, calls>>

\* await fetch(...) rejects: catch, finally.
FetchRejects(i) ==
  /\ frames[i].pc = "fetch"
  /\ FinishTurn(i, TRUE, CatchBlock(i, <<"Failed to fetch">>))

\* await fetch(...) resolves with a response; the turn goes on to await
\* response.json().
FetchResolves(i, resp) ==
  /\ frames[i].pc = "fetch"
  /\ frames' = [frames EXCEPT ![i].pc = "json", ![i].response = resp]
  /\ UNCHANGED <<conversation, entryTurn, busy, inputDisabled, messagesEl,
                 statusBar, fetches, calls>>

\* await response.json() settles and the turn runs to its end.
JsonSettles(i) ==
  /\ frames[i].pc = "json"
  /\ \E r \in {TurnResult(frames[i].response)} :
       IF r.threw
       THEN FinishTurn(i, TRUE, CatchBlock(i, r.message))
       ELSE FinishTurn(i, FALSE, SuccessBlock(i, r.rawReply, r.status))

(***************************************************************************)
(* The /api/chat handler and the model invocation policy (src/server.js)   *)
(***************************************************************************)
VARIABLES
  apiKey,         \* whether process.env.GOOGLE_API_KEY is set
  primaryModel,   \* const primaryModel
  fallbackModel,  \* const fallbackModel
  served,         \* the number of /api/chat requests received so far
  spc,            \* where the handler of the current request stands:
                  \* "idle", "primary", "fallback" (awaiting callGemini), "responded"
  req,            \* req.body of the current request: {message, history}
  upstream,       \* the upstream requests of the current request, in order:
                  \* {model, payload, settled, threw, status, text}
  result,         \* let result: the fields of the object it refers to
  objects,        \* the objects callGemini returned for the current request,
                  \* in the order they were made, with the fields they hold now
  activeModel,    \* let activeModel
  notice,         \* let notice
  responses       \* the responses sent for the current request

serverVars == <<apiKey, primaryModel, fallbackModel, served, spc, req, upstream,
                result, objects, activeModel, notice, responses>>

Models == {"m1", "m2"}

\* An InvocationResult that does not exist yet.
NoResult == [ok |-> FALSE, status |-> 0, detail |-> <<>>, data |-> Undef, model |-> ""]

\* JSON.stringify of the values the handler serialises (functionCall.args).
RECURSIVE Stringify(_)
RECURSIVE StringifyAll(_, _, _)
StringifyAll(v, i, acc) ==
  IF v.t = "arr"
  THEN IF i > Len(v.a) THEN acc
       ELSE StringifyAll(v, i + 1,
              acc \o (IF i > 1 THEN <<",">> ELSE <<>>) \o Stringify(v.a[i]))
  ELSE IF i > Len(v.k) THEN acc
       ELSE StringifyAll(v, i + 1,
              acc \o (IF i > 1 THEN <<",">> ELSE <<>>)
                  \o <<QUOTE>> \o v.k[i] \o <<QUOTE, ":">> \o Stringify(v.o[i]))
Stringify(v) ==
  CASE v.t = "str" -> <<QUOTE>> \o v.s \o <<QUOTE>>
    [] v.t = "num" -> <<v.n>>
    [] v.t = "bool" -> IF v.b THEN <<"true">> ELSE <<"false">>
    [] v.t = "arr" -> <<"[">> \o StringifyAll(v, 1, <<>>) \o <<"]">>
    [] v.t = "obj" -> <<"{">> \o StringifyAll(v, 1, <<>>) \o <<"}">>
    [] OTHER -> <<"null">>

\* buildGeminiPayload(history, message).contents: entries {role, text}, the
\* text being what parts: [{text}] holds.
RECURSIVE MapHistory(_, _)
MapHistory(entries, i) ==
  IF i > Len(entries) THEN <<>>
  ELSE LET entry == entries[i]
           rest == MapHistory(entries, i + 1)
       IN IF Truthy(entry) /\ IsString(Get(entry, "text"))
          THEN <<[role |-> IF Get(entry, "role") = Str(<<"model">>)
                           THEN "model" ELSE "user",
                  text |-> Get(entry, "text").s]>> \o rest
          ELSE rest

BuildGeminiPayload(history, message) ==
  LET sanitizedHistory == IF IsArray(history) THEN history.a ELSE <<>>
  IN Append(MapHistory(sanitizedHistory, 1), [role |-> "user", text |-> message])

\* callGemini, from the response on: the InvocationResult of an attempt.
CallGeminiResult(model, status, text) ==
  IF ~StatusOk(status)
  THEN [ok |-> FALSE, status |-> status, detail |-> text, data |-> Undef,
        model |-> model]
  ELSE [ok |-> TRUE, status |-> 0, detail |-> <<>>,
        data |-> IF text # <<>> /\ JsonParse(text).ok THEN JsonParse(text).v
                 ELSE EmptyObj,
        model |-> model]

\* One part of a candidate's content, as extractTextFromParts maps it:
\* [threw, text].  Buffer.from throws on a value that is no string.
ExtractPart(part) ==
  LET fc == Get(part, "functionCall")
      inline == Get(part, "inlineData")
      args == IF Truthy(Get(fc, "args")) THEN Stringify(Get(fc, "args")) ELSE <<>>
  IN CASE IsString(Get(part, "text")) ->
            [threw |-> FALSE, text |-> Get(part, "text").s]
       [] IsString(Get(fc, "name")) ->
            [threw |-> FALSE,
             text |-> <<"FUNCTION-CALL: ">> \o Get(fc, "name").s
                      \o (IF args # <<>> THEN <<" ">> \o args ELSE <<>>)]
       [] IsString(Get(Get(part, "codeExecutionResult"), "outputText")) ->
            [threw |-> FALSE,
             text |-> Get(Get(part, "codeExecutionResult"), "outputText").s]
       [] Truthy(Get(inline, "data")) ->
            IF ~IsString(Get(inline, "data")) /\ ~IsArray(Get(inline, "data"))
            THEN [threw |-> TRUE, text |-> <<>>]
            ELSE [threw |-> FALSE,
                  text |-> <<"INLINE-DATA (">>
                           \o (IF Truthy(Get(inline, "mimeType"))
                               THEN ToText(Get(inline, "mimeType"))
                               ELSE <<"application/octet-stream">>)
                           \o <<", ", "n", " bytes)">>]
       [] Truthy(Get(Get(part, "fileData"), "fileUri")) ->
            [threw |-> FALSE,
             text |-> <<"FILE-REF: ">> \o ToText(Get(Get(part, "fileData"), "fileUri"))]
       [] Truthy(Get(Get(part, "outputAudio"), "data")) ->
            [threw |-> FALSE, text |-> <<"AUDIO-GENERATED">>]
       [] OTHER -> [threw |-> FALSE, text |-> <<>>]

\* parts.map(...).filter(Boolean).join("\n"), from part i on.
RECURSIVE JoinParts(_, _, _)
JoinParts(parts, i, acc) ==
  IF i > Len(parts) THEN [threw |-> FALSE, text |-> acc]
  ELSE The({ IF e.threw THEN [threw |-> TRUE, text |-> <<>>]
             ELSE JoinParts(parts, i + 1,
                    IF e.text = <<>> THEN acc
                    ELSE IF acc = <<>> THEN e.text
                    ELSE acc \o <<NL>> \o e.text)
             : e \in {ExtractPart(parts[i])} })

ExtractTextFromParts(parts) ==
  IF ~IsArray(parts) THEN [threw |-> FALSE, text |-> <<>>]
  ELSE The({ IF j.threw THEN j ELSE [threw |-> FALSE, text |-> Trim(j.text)]
             : j \in {JoinParts(parts.a, 1, <<>>)} })

PartsOf(candidate) == Get(Get(candidate, "content"), "parts")

\* The loop without its break: the last candidate whose parts yield text.
RECURSIVE FirstReplyTakesLast(_, _)
FirstReplyTakesLast(candidates, i) ==
  IF i > Len(candidates) THEN [threw |-> FALSE, reply |-> <<>>, used |-> 0]
  ELSE The({ IF e.threw \/ later.threw THEN [threw |-> TRUE, reply |-> <<>>, used |-> 0]
             ELSE IF later.used > 0 THEN later
             ELSE IF e.text # <<>> THEN [threw |-> FALSE, reply |-> e.text, used |-> i]
             ELSE later
             : e \in {ExtractTextFromParts(PartsOf(candidates[i]))},
               later \in {FirstReplyTakesLast(candidates, i + 1)} })

\* for (const candidate of candidates) ...: the first candidate from i on
\* whose parts yield text: [threw, reply, used] (used = 0: none).
RECURSIVE FirstReply(_, _)
FirstReply(candidates, i) ==
  IF i > Len(candidates) THEN [threw |-> FALSE, reply |-> <<>>, used |-> 0]
  ELSE The({ IF e.threw THEN [threw |-> TRUE, reply |-> <<>>, used |-> 0]
             ELSE IF e.text # <<>> THEN [threw |-> FALSE, reply |-> e.text, used |-> i]
             ELSE FirstReply(candidates, i + 1)
             : e \in {ExtractTextFromParts(PartsOf(candidates[i]))} })

\* A response: res.status(status).json({error, details}) or res.json({reply, notice})
Response(status, error, details, reply, noticeText) ==
  [status |-> status, error |-> error, details |-> details, reply |-> reply,
   notice |-> noticeText]

InternalError ==
  Response(500, Str(<<"SERVER-SIDE-ERROR">>), Str(<<"error.message">>), Undef, Undef)

\* The handler from "if (!result.ok)" to its return, for the final result.
Reply(res, active, note) ==
  IF ~res.ok
  THEN LET parsed == JsonParse(res.detail)
           message == Get(Get(parsed.v, "error"), "message")
       IN Response(res.status,
                   Str(<<"GEMINI-CALL-FAILED (", ToString(res.status), ")">>),
                   IF parsed.ok /\ Truthy(message) THEN message ELSE Str(res.detail),
                   Undef, Undef)
  ELSE LET cands == Get(res.data, "candidates")
           candidates == IF IsArray(cands) THEN cands.a ELSE <<>>
           parts == PartsOf(At(cands, 0))
           first == FirstReply(candidates, 1)
           again == ExtractTextFromParts(parts)
           usedCandidate == IF first.used > 0 THEN candidates[first.used]
                            ELSE At(cands, 0)
           finishReason ==
             IF Truthy(Get(usedCandidate, "finishReason"))
             THEN Get(usedCandidate, "finishReason")
             ELSE Get(Get(res.data, "promptFeedback"), "blockReason")
       IN IF first.threw \/ (first.reply = <<>> /\ again.threw) THEN InternalError
          ELSE IF first.reply = <<>> /\ again.text = <<>>
          THEN Response(502, Str(<<"NO-VALID-ANSWER">>),
                        IF Truthy(finishReason)
                        THEN Str(<<"STOP-REASON: ">> \o ToText(finishReason))
                        ELSE Str(<<"NO-TEXT-IN-RESPONSE">>),
                        Undef, Undef)
          ELSE Response(200, Undef, Undef,
                        Str(IF first.reply # <<>> THEN first.reply ELSE again.text),
                        IF note # <<>> THEN Str(note)
                        ELSE Str(<<IF res.model # "" THEN res.model ELSE active,
                                   " answered">>))

\* The notice of a request the fallback model answered.
FallbackNotice ==
  <<"MODEL ", primaryModel, " UNAVAILABLE, ", fallbackModel, " answered">>

\* A fallback on every failure of the primary attempt, whatever its status.
TriesFallbackOnAnyFailure(res) == ~res.ok /\ primaryModel # fallbackModel

\* if (!result.ok && result.status === 404 && primaryModel !== fallbackModel)
TriesFallback(res) == ~res.ok /\ res.status = 404 /\ primaryModel # fallbackModel

\* The failure of the fallback attempt reported alone.
MergeFailureDropsPrimary(res, fallbackResult) ==
  [res EXCEPT
     !.detail = <<"Fallback (", fallbackModel, ") failed: ">> \o fallbackResult.detail,
     !.status = fallbackResult.status]

\* result.detail += `\nFallback (${fallbackModel}) failed: ${...}`;
\* result.status = fallbackResult.status
MergeFailure(res, fallbackResult) ==
  [res EXCEPT
     !.detail = res.detail \o <<NL, "Fallback (", fallbackModel, ") failed: ">>
                \o fallbackResult.detail,
     !.status = fallbackResult.status]

\* The branch on fallbackResult.ok without its "result = fallbackResult".
FinalResultKeepsPrimary(res, fallbackResult) ==
  IF fallbackResult.ok THEN res ELSE MergeFailure(res, fallbackResult)

\* if (fallbackResult.ok) result = fallbackResult; else the two failures merged
FinalResult(res, fallbackResult) ==
  IF fallbackResult.ok THEN fallbackResult ELSE MergeFailure(res, fallbackResult)

\* The request body as the server receives it: JSON.stringify in the browser,
\* express.json() in the server.
RECURSIVE EntriesJson(_, _)
EntriesJson(history, i) ==
  IF i > Len(history) THEN <<>>
  ELSE <<Obj(<<<<"role">>, <<"text">>>>,
             <<Str(<<history[i].role>>), Str(history[i].text)>>)>>
       \o EntriesJson(history, i + 1)
RequestJson(body) ==
  [message |-> Str(body.message), history |-> Arr(EntriesJson(body.history, 1))]

\* What the upstream may answer an attempt with.
Q == QUOTE
TextPart(text) == <<"{", Q, "text", Q, ":", Q, text, Q, "}">>
Candidate(parts, more) ==
  <<"{", Q, "content", Q, ":", "{", Q, "parts", Q, ":", "[">> \o parts
  \o <<"]", "}">> \o more \o <<"}">>
Candidates(list) == <<"{", Q, "candidates", Q, ":", "[">> \o list \o <<"]", "}">>
ErrorBody(message) ==
  <<"{", Q, "error", Q, ":", "{", Q, "message", Q, ":", Q, message, Q, "}", "}">>
UpstreamAnswers ==
  { [status |-> 200, text |-> Candidates(Candidate(TextPart("hello"), <<>>))],
    [status |-> 200,
     text |-> Candidates(Candidate(<<>>, <<>>) \o <<",">>
                         \o Candidate(TextPart("second"), <<>>))],
    [status |-> 200,
     text |-> Candidates(Candidate(<<>>,
                <<",", Q, "finishReason", Q, ":", Q, "SAFETY", Q>>))],
    [status |-> 200,
     text |-> Candidates(Candidate(
                <<"{", Q, "inlineData", Q, ":", "{", Q, "data", Q, ":", "5", "}", "}">>,
                <<>>))],
    [status |-> 200, text |-> <<>>],
    [status |-> 200, text |-> <<"null">>],
    [status |-> 200,
     text |-> Candidates(Candidate(TextPart(" "), <<>>) \o <<",">>
                         \o Candidate(TextPart("second"), <<>>) \o <<",">>
                         \o Candidate(TextPart("third"), <<>>))],
    [status |-> 200,
     text |-> Candidates(Candidate(TextPart("first"), <<>>) \o <<",">>
                \o Candidate(
                     <<"{", Q, "inlineData", Q, ":", "{", Q, "data", Q, ":", "5", "}", "}">>,
                     <<>>))],
    [status |-> 200,
     text |-> Candidates(Candidate(<<>>, <<>>) \o <<",">>
                \o Candidate(<<>>, <<",", Q, "finishReason", Q, ":", Q, "RECITATION", Q>>))],
    [status |-> 200,
     text |-> <<"{", Q, "candidates", Q, ":", "[", "]", ",", Q, "promptFeedback", Q, ":",
                "{", Q, "blockReason", Q, ":", Q, "BLOCKED", Q, "}", "}">>],
    [status |-> 200,
     text |-> <<"{", Q, "candidates", Q, ":", "{", Q, "0", Q, ":">>
              \o Candidate(TextPart("zero"), <<>>) \o <<"}", "}">>],
    [status |-> 404, text |-> ErrorBody("model not found")],
    [status |-> 404, text |-> <<"Not Found">>],
    [status |-> 404,
     text |-> <<"{", Q, "error", Q, ":", "{", Q, "message", Q, ":", Q, "a", Q, "}",
                ",", Q, "x", Q, ":", Q>>],
    [status |-> 500, text |-> <<Q, "}">>],
    [status |-> 429, text |-> ErrorBody("quota")] }

\* The requests a client may send: req.body.message and req.body.history.
HistoryEntry(role, text) ==
  Obj(<<<<"role">>, <<"text">>>>, <<Str(<<role>>), Str(text)>>)
RequestMessages == { Undef, Num("5"), Str(<<" ">>), Str(<<" ", "q", " ">>) }
RequestHistories ==
  { Undef,
    Arr(<<HistoryEntry("model", <<"w">>), HistoryEntry("user", <<"q">>)>>),
    Arr(<<Null, HistoryEntry("system", <<"s">>),
          Obj(<<<<"role">>, <<"text">>>>, <<Str(<<"user">>), Num("5")>>)>>) }

NoRequest == [message |-> Undef, history |-> Undef]

\* res.status(...).json(...): the handler returns.
Respond(response) ==
  /\ responses' = Append(responses, response)
  /\ spc' = "responded"

\* callGemini(model, payload, apiKey) up to its await fetch(...).
Attempt(model, payload) ==
  [model |-> model, payload |-> payload, settled |-> FALSE, threw |-> FALSE,
   status |-> 0, text |-> <<>>]

\* Both models asked at once.
BothAttempts(payload) ==
  <<Attempt(primaryModel, payload), Attempt(fallbackModel, payload)>>

\* let result = await callGemini(primaryModel, payload, apiKey): the one
\* upstream request the handler makes before it has an answer.
FirstAttempts(payload) == <<Attempt(primaryModel, payload)>>

\* What the objects hold once the fallback attempt has returned its own:
\* "result = fallbackResult" moves the variable and touches no object, the
\* else branch assigns to fields of the object result refers to, the primary
\* attempt's.
Held(objs, fallbackResult) ==
  IF fallbackResult.ok THEN Append(objs, fallbackResult)
  ELSE <<MergeFailure(objs[1], fallbackResult), fallbackResult>>

\* A message that is rejected only when it is no string or has no character.
InvalidMessageUntrimmed(message) == ~IsString(message) \/ message.s = <<>>

\* typeof message !== "string" || !message.trim()
InvalidMessage(message) == ~IsString(message) \/ Trim(message.s) = <<>>

\* app.post("/api/chat") up to its first await: validation, the payload, the
\* primary attempt.
Receive(message, history) ==
  /\ spc \in {"idle", "responded"}
  /\ served < MaxRequests
  /\ served' = served + 1
  /\ req' = [message |-> message, history |-> history]
  /\ result' = NoResult
  /\ objects' = <<>>
  /\ notice' = <<>>
  /\ activeModel' = ""
  /\ IF InvalidMessage(message)
     THEN /\ responses' = <<Response(400, Str(<<"MESSAGE-REQUIRED">>), Undef, Undef, Undef)>>
          /\ spc' = "responded"
          /\ upstream' = <<>>
     ELSE IF ~apiKey
     THEN /\ responses' = <<Response(503, Str(<<"API-KEY-NOT-SET">>), Undef, Undef, Undef)>>
          /\ spc' = "responded"
          /\ upstream' = <<>>
     ELSE /\ responses' = <<>>
          /\ spc' = "primary"
          /\ upstream' = FirstAttempts(BuildGeminiPayload(history, Trim(message.s)))
  /\ UNCHANGED <<apiKey, primaryModel, fallbackModel>>

\* A rejection that leaves the handler: the request is never answered.
AttemptThrowsUncaught ==
  /\ spc \in {"primary", "fallback"}
  /\ upstream' = [upstream EXCEPT ![Len(upstream)].settled = TRUE,
                                  ![Len(upstream)].threw = TRUE]
  /\ spc' = "responded"
  /\ UNCHANGED <<apiKey, primaryModel, fallbackModel, served, req, result,
                 objects, activeModel, notice, responses>>

\* An attempt's fetch or response.text() rejects: the handler's catch block.
AttemptThrows ==
  /\ spc \in {"primary", "fallback"}
  /\ upstream' = [upstream EXCEPT ![Len(upstream)].settled = TRUE,
                                  ![Len(upstream)].threw = TRUE]
  /\ Respond(InternalError)
  /\ UNCHANGED <<apiKey, primaryModel, fallbackModel, served, req, result,
                 objects, activeModel, notice>>

\* The primary attempt's response has been read.
PrimarySettles(answer) ==
  /\ spc = "primary"
  /\ LET res == CallGeminiResult(primaryModel, answer.status, answer.text)
         settled == [upstream EXCEPT ![1].settled = TRUE,
                                     ![1].status = answer.status,
                                     ![1].text = answer.text]
     IN /\ result' = res
        /\ objects' = <<res>>
        /\ activeModel' = primaryModel
        /\ IF TriesFallback(res)
           THEN /\ upstream' = Append(settled, Attempt(fallbackModel, upstream[1].payload))
                /\ spc' = "fallback"
                /\ UNCHANGED responses
           ELSE /\ upstream' = settled
                /\ Respond(Reply(res, primaryModel, <<>>))
  /\ UNCHANGED <<apiKey, primaryModel, fallbackModel, served, req, notice>>

\* The fallback attempt's response has been read.
FallbackSettles(answer) ==
  /\ spc = "fallback"
  /\ LET fallbackResult == CallGeminiResult(fallbackModel, answer.status, answer.text)
         final == FinalResult(result, fallbackResult)
         active == IF fallbackResult.ok THEN fallbackModel ELSE activeModel
         note == IF fallbackResult.ok THEN FallbackNotice ELSE notice
     IN /\ result' = final
        /\ objects' = Held(objects, fallbackResult)
        /\ activeModel' = active
        /\ notice' = note
        /\ upstream' = [upstream EXCEPT ![2].settled = TRUE,
                                        ![2].status = answer.status,
                                        ![2].text = answer.text]
        /\ Respond(Reply(final, active, note))
  /\ UNCHANGED <<apiKey, primaryModel, fallbackModel, served, req>>

ServerIdle ==
  /\ served = 0
  /\ spc = "idle"
  /\ req = NoRequest
  /\ upstream = <<>>
  /\ result = NoResult
  /\ objects = <<>>
  /\ activeModel = ""
  /\ notice = <<>>
  /\ responses = <<>>

\* The configuration is read from the environment when the process starts.
ServerInit ==
  /\ apiKey \in BOOLEAN
  /\ primaryModel \in Models
  /\ fallbackModel \in Models
  /\ ServerIdle

\* The server the browser session of Spec talks to.
ServerDefault ==
  /\ apiKey = TRUE
  /\ primaryModel = "m1"
  /\ fallbackModel = "m2"
  /\ ServerIdle

ClientInit ==
  /\ conversation = <<[role |-> "model", text |-> Welcome]>>
  /\ entryTurn = <<0>>
  /\ busy = FALSE
  /\ inputDisabled = FALSE
  /\ messagesEl = AddMessage(<<>>, FormatReply(Welcome, FALSE), "bot")
  /\ statusBar = [text |-> <<>>, variant |-> "default"]
  /\ frames = <<>>
  /\ fetches = <<>>
  /\ calls = <<>>

(***************************************************************************)
(* The render pipeline, one call: limitMarkdown(rawReply, maxChars), then    *)
(* formatReply on its result, whose markdownToHtml takes the lines one at   *)
(* a time, then the push of the model entry. Beside it, formatInline called *)
(* on its own with a text and a depth.                                      *)
(***************************************************************************)
VARIABLES
  replyText,     \* the text to render
  maxChars,    \* the cap
  rpc,         \* where the call is: "idle", "limit", "lines", "done"
  limited,     \* what limitMarkdown returned: {text, truncated}
  lines,       \* the lines markdownToHtml has still to consume
  parser,      \* the locals of markdownToHtml
  rendered,    \* what formatReply returned
  modelEntry,  \* the entry pushed onto conversation after the render
  past,        \* the renders finished before this one: text, cap, html
  inlineText,  \* the text formatInline is called with
  inlineDepth, \* the depth formatInline is called with
  ipc,         \* where that call is: "idle", "call", "done"
  inlineTokens,\* the tokens the call cut the text into
  inlineOut    \* what the call returned, with the depths it tokenized at

pipelineVars ==
  <<replyText, maxChars, rpc, limited, lines, parser, rendered, modelEntry, past>>
inlineVars == <<inlineText, inlineDepth, ipc, inlineTokens, inlineOut>>
renderVars == <<pipelineVars, inlineVars>>

MaxLines == 3
SmallCap == 4
MaxRenders == 3

\* The lines a text is made of: fences with and without a language tag, the
\* block markers, text, a character to escape, blanks before a CR.
RenderLines ==
  { <<BACKTICK, BACKTICK, BACKTICK>>,
    <<BACKTICK, BACKTICK, BACKTICK, "j">>,
    <<"#", " ", "h">>,
    <<"-", " ", "i">>,
    <<"1", ".", " ", "o">>,
    <<">", " ", "q">>,
    <<"t">>,
    <<"<">>,
    <<" ", CR>>,
    <<"-", "-", "-">> }
RenderTexts ==
  { Join(ls, <<NL>>) : ls \in UNION { [1..n -> RenderLines] : n \in 0..MaxLines } }
Caps == {0, SmallCap, DisplayCap}

NoRender ==
  [kind |-> "", src |-> <<>>, note |-> FALSE, html |-> <<>>]
NoEntry == [role |-> "", text |-> <<>>]

RenderInit ==
  /\ replyText \in RenderTexts
  /\ maxChars \in Caps
  /\ rpc = "limit"
  /\ limited = [text |-> <<>>, truncated |-> FALSE]
  /\ lines = <<>>
  /\ parser = ParserStart
  /\ rendered = NoRender
  /\ modelEntry = NoEntry
  /\ past = <<>>

\* No render call is under way in the specifications of the session and of
\* the server.
RenderIdle ==
  /\ replyText = <<>>
  /\ maxChars = DisplayCap
  /\ rpc = "idle"
  /\ limited = [text |-> <<>>, truncated |-> FALSE]
  /\ lines = <<>>
  /\ parser = ParserStart
  /\ rendered = NoRender
  /\ modelEntry = NoEntry
  /\ past = <<>>

\* const { text, truncated } = limitMarkdown(rawReply, maxChars), and
\* markdownToHtml up to its loop.
LimitStep ==
  /\ rpc = "limit"
  /\ \E l \in {LimitMarkdown(replyText, maxChars)} :
       /\ limited' = l
       /\ lines' = SplitLines(Normalize(l.text))
  /\ parser' = StartParser(parser)
  /\ rpc' = "lines"
  /\ UNCHANGED <<replyText, maxChars, rendered, modelEntry, past>>

\* One line of the loop of markdownToHtml.
LineStep ==
  /\ rpc = "lines"
  /\ lines # <<>>
  /\ parser' = ConsumeLine(parser, Head(lines))
  /\ lines' = Tail(lines)
  /\ UNCHANGED <<replyText, maxChars, rpc, limited, rendered, modelEntry, past>>

\* The end of markdownToHtml, the fragment formatReply makes of its result,
\* and the model entry sendMessage pushes once the fragment is shown.
FinishStep ==
  /\ rpc = "lines"
  /\ lines = <<>>
  /\ rendered' = [kind |-> "reply-markdown", src |-> limited.text,
                  note |-> limited.truncated,
                  html |-> Finish(parser, limited.text)
                           \o (IF limited.truncated THEN <<TruncationNote>> ELSE <<>>)]
  /\ parser' = CloseAtEnd(parser)
  /\ modelEntry' = ModelEntry(replyText, limited.text)
  /\ rpc' = "done"
  /\ UNCHANGED <<replyText, maxChars, limited, lines, past>>

\* Another reply is rendered after this one; what the finished call left
\* behind stays where it is until the next call writes it.
RepeatTexts ==
  { <<>>,
    <<"-", " ", "i">>,
    <<"*", "*", "b", "*", "*", NL, BACKTICK, BACKTICK, BACKTICK, NL, "<">> }
RenderAgain ==
  /\ rpc = "done"
  /\ Len(past) + 1 < MaxRenders
  /\ past' = Append(past, [text |-> replyText, cap |-> maxChars,
                           html |-> rendered.html])
  /\ replyText' \in RepeatTexts
  /\ maxChars' \in {SmallCap, DisplayCap}
  /\ rpc' = "limit"
  /\ UNCHANGED <<limited, lines, parser, rendered, modelEntry>>

RepeatInit ==
  /\ replyText \in RepeatTexts
  /\ maxChars \in {SmallCap, DisplayCap}
  /\ rpc = "limit"
  /\ limited = [text |-> <<>>, truncated |-> FALSE]
  /\ lines = <<>>
  /\ parser = ParserStart
  /\ rendered = NoRender
  /\ modelEntry = NoEntry
  /\ past = <<>>

\* formatInline called with a text and a depth.
InlineTexts ==
  { <<>>,
    <<"*", "a", " ", BACKTICK, "<", BACKTICK>>,
    <<"*", "*", "*", "a", "*", "*", "*">>,
    <<"_", "_", "*", "&", "*", "_", "_", ">">>,
    <<"*", "*", "_", "'", "_", "*", "*">>,
    <<QUOTE, "_", "x">>,
    <<"[", "*", "*", "_", "<", "_", "*", "*", "]", "(", "f", ":", "x", ")">>,
    <<"[", "g", "]", "(", "j", "a", "v", "a", "s", "c", "r", "i", "p", "t",
      ":", "x", ")">>,
    <<"[", "g", "]", "(", "/", "r", ")">>,
    <<"[", "g", "]", "(", "h", "t", "t", "p", "x", ")">>,
    <<"[", "g", "]", "(", "h", "t", "t", "p", ":", "&", ")">>,
    <<"[", "<", "]", "(", "H", "t", "t", "P", "s", ":", QUOTE, ")">>,
    <<"[", "g", "]", "(", " ", "m", "a", "i", "l", "t", "o", ":", "m", ")">>,
    <<"[", "g", "]", "(", "M", "A", "I", "L", "T", "O", ":", "'", ")", "[", "x">> }
InlineDepths == 0..(DepthLimit + 1)

InlineInit ==
  /\ inlineText \in InlineTexts
  /\ inlineDepth \in InlineDepths
  /\ ipc = "call"
  /\ inlineTokens = <<>>
  /\ inlineOut = [html |-> <<>>, depths |-> {}]

InlineIdle ==
  /\ inlineText = <<>>
  /\ inlineDepth = 0
  /\ ipc = "idle"
  /\ inlineTokens = <<>>
  /\ inlineOut = [html |-> <<>>, depths |-> {}]

InlineStep ==
  /\ ipc = "call"
  /\ inlineTokens' = IF ExceedsDepth(inlineDepth) \/ inlineText = <<>>
                     THEN <<>> ELSE Tokenize(inlineText)
  /\ inlineOut' = Inline(inlineText, inlineDepth)
  /\ ipc' = "done"
  /\ UNCHANGED <<inlineText, inlineDepth>>

\* The form's submit handler calls sendMessage with what the user typed.
Submit ==
  /\ \E rawText \in RawTexts : SendMessage(rawText)
  /\ UNCHANGED <<serverVars, renderVars>>

NetworkFails ==
  /\ \E i \in 1..Len(frames) : FetchRejects(i)
  /\ UNCHANGED <<serverVars, renderVars>>

NetworkAnswers ==
  /\ \E i \in 1..Len(frames) : \E resp \in ClientResponses : FetchResolves(i, resp)
  /\ UNCHANGED <<serverVars, renderVars>>

BodyRead ==
  /\ \E i \in 1..Len(frames) : JsonSettles(i)
  /\ UNCHANGED <<serverVars, renderVars>>

Arrives ==
  /\ \E message \in RequestMessages, history \in RequestHistories :
       Receive(message, history)
  /\ UNCHANGED <<clientVars, renderVars>>

UpstreamFails ==
  /\ AttemptThrows
  /\ UNCHANGED <<clientVars, renderVars>>

PrimaryAnswers ==
  /\ \E answer \in UpstreamAnswers : PrimarySettles(answer)
  /\ UNCHANGED <<clientVars, renderVars>>

FallbackAnswers ==
  /\ \E answer \in UpstreamAnswers : FallbackSettles(answer)
  /\ UNCHANGED <<clientVars, renderVars>>

Limits ==
  /\ LimitStep
  /\ UNCHANGED <<clientVars, serverVars, inlineVars>>

ConsumesLine ==
  /\ LineStep
  /\ UNCHANGED <<clientVars, serverVars, inlineVars>>

Returns ==
  /\ FinishStep
  /\ UNCHANGED <<clientVars, serverVars, inlineVars>>

RendersAgain ==
  /\ RenderAgain
  /\ UNCHANGED <<clientVars, serverVars, inlineVars>>

FormatsInline ==
  /\ InlineStep
  /\ UNCHANGED <<clientVars, serverVars, pipelineVars>>

vars == <<clientVars, serverVars, renderVars>>

\* The browser session.
Init == ClientInit /\ ServerDefault /\ RenderIdle /\ InlineIdle
Settles == NetworkFails \/ NetworkAnswers \/ BodyRead
Next == Submit \/ NetworkFails \/ NetworkAnswers \/ BodyRead
Spec == Init /\ [][Next]_vars
\* Every network call eventually settles.
FairSpec == Spec /\ WF_vars(Settles)

\* The server, for the requests of any client.
ServerStart == ClientInit /\ ServerInit /\ RenderIdle /\ InlineIdle
ServerNext == Arrives \/ UpstreamFails \/ PrimaryAnswers \/ FallbackAnswers
ServerSpec == ServerStart /\ [][ServerNext]_vars

\* The renderer: the pipeline for any text and cap, formatInline for any
\* text and depth.
RenderStart ==
  /\ ClientInit
  /\ ServerDefault
  /\ \/ RenderInit /\ InlineIdle
     \/ RenderIdle /\ InlineInit
RenderNext == Limits \/ ConsumesLine \/ Returns \/ FormatsInline
RenderSpec == RenderStart /\ [][RenderNext]_vars

\* Replies rendered one after another.
RepeatStart == ClientInit /\ ServerDefault /\ RepeatInit /\ InlineIdle
RepeatNext == Limits \/ ConsumesLine \/ Returns \/ RendersAgain
RepeatSpec == RepeatStart /\ [][RepeatNext]_vars

(***************************************************************************)
(* Properties of the chat session controller                               *)
(***************************************************************************)
\* The turns whose sendMessage has not returned yet.
InFlight == { i \in 1..Len(frames) : frames[i].pc # "done" }
\* The step is a sendMessage call.
IsCall == Len(calls') = Len(calls) + 1
\* The step is the one in which turn i runs to its end.
Finishes(i) == i \in 1..Len(frames) /\ frames[i].pc # "done" /\ frames'[i].pc = "done"
\* Turn i ends in failure in this step: the fetch rejected, the response is
\* not ok, or reading or using its body throws.
FinishesFailed(i) ==
  /\ Finishes(i)
  /\ \/ frames[i].pc = "fetch"
     \/ ~StatusOk(frames[i].response.status)
     \/ ~JsonParse(frames[i].response.body).ok
     \/ LET reply == Get(JsonParse(frames[i].response.body).v, "reply")
        IN Truthy(reply) /\ ~IsString(reply)
\* The position in the history of the user entry of turn i.
UserEntryOf(i) ==
  CHOOSE k \in 1..Len(conversation) :
    entryTurn[k] = i /\ conversation[k].role = "user"

\* C1: at most one /api/chat request is in flight at any time, and a call
\* of sendMessage made while busy is true appends nothing to the history,
\* adds no bubble and issues no request.
C1_SingleFlight ==
  [][ /\ Cardinality(InFlight') <= 1
      /\ (IsCall /\ busy) =>
           UNCHANGED <<conversation, messagesEl, fetches, frames, busy>> ]_vars

\* A non-empty text was submitted while a request was in flight.
C1_Witness ==
  /\ Len(calls) = 2
  /\ calls[2].busy /\ calls[2].trimmed # <<>>
  /\ Len(fetches) = 1 /\ Len(conversation) = 2 /\ Len(messagesEl) = 3

\* C2: a model entry is appended only by a turn whose response was
\* successful; a turn that ends in failure appends no model entry, so after
\* it the history is the history the turn started with plus its user entry
\* (which is the history its request carried).
C2_ModelEntryOnlyOnSuccess ==
  [][ /\ \A i \in 1..Len(frames) :
           FinishesFailed(i) =>
             /\ conversation' = conversation
             /\ conversation' = fetches[i].history
      /\ (Len(conversation') > Len(conversation)
          /\ conversation'[Len(conversation')].role = "model") =>
           \E i \in 1..Len(frames) :
             /\ Finishes(i) /\ ~FinishesFailed(i)
             /\ StatusOk(frames[i].response.status) ]_vars

\* A turn failed on a response that was not ok, a later turn succeeded.
C2_Witness ==
  /\ Len(frames) = 2
  /\ frames[1].pc = "done" /\ frames[1].response.status = 500
  /\ frames[2].pc = "done" /\ statusBar.variant = "success"
  /\ Len(conversation) = 4
  /\ conversation[4].role = "model"

\* C6: every turn that sets busy sets it back to false when its network call
\* settles, on each exit path; the network call settling eventually, busy
\* becomes false again, and a submission made then is accepted.
C6_BusyCleared ==
  /\ busy ~> ~busy
  /\ [][ /\ \A i \in 1..Len(frames) : Finishes(i) => ~busy'
         /\ (IsCall /\ ~busy /\ calls'[Len(calls')].trimmed # <<>>) =>
              /\ Len(fetches') = Len(fetches) + 1
              /\ busy' ]_vars

\* A turn ended with an exception and the next submission was accepted.
C6_Witness ==
  /\ Len(frames) = 2
  /\ frames[1].pc = "done" /\ frames[1].response.status = 0
  /\ frames[2].pc = "fetch"
  /\ Len(conversation) = 3
  /\ busy

\* C7: the pending placeholder of a turn is replaced in place when the
\* turn's network call settles, by the rendered reply or the rendered
\* apology: no bubble is ever removed or moved and none is added by the
\* settling step; whenever busy is false no bubble is pending.
C7_PlaceholderResolved ==
  /\ [](~busy => \A k \in 1..Len(messagesEl) : ~messagesEl[k].thinking)
  /\ [][ /\ Len(messagesEl') >= Len(messagesEl)
         /\ \A k \in 1..Len(messagesEl) :
              /\ messagesEl'[k].id = messagesEl[k].id
              /\ messagesEl'[k].role = messagesEl[k].role
              /\ messagesEl'[k] # messagesEl[k] =>
                   \E i \in 1..Len(frames) : Finishes(i) /\ frames[i].thinking = k
         /\ \A i \in 1..Len(frames) :
              Finishes(i) =>
                /\ Len(messagesEl') = Len(messagesEl)
                /\ messagesEl[frames[i].thinking].thinking
                /\ ~messagesEl'[frames[i].thinking].thinking
                /\ messagesEl'[frames[i].thinking].html.kind = "reply-markdown"
                /\ FinishesFailed(i) =>
                     messagesEl'[frames[i].thinking].html = FormatReply(ErrorApology, FALSE)
       ]_vars

\* One placeholder became the apology and a later one the reply.
C7_Witness ==
  /\ ~busy
  /\ Len(messagesEl) = 5
  /\ messagesEl[3].html = FormatReply(ErrorApology, FALSE)
  /\ messagesEl[5].html = FormatReply(<<"r">>, FALSE)

\* C8: the history is append-only: every step leaves the history it found
\* as a prefix of the history it leaves.
C8_AppendOnly == [][IsPrefix(conversation, conversation')]_vars

\* The history after a rejected call, a failed turn and a successful turn.
C8_Witness ==
  /\ Len(calls) = 3 /\ Len(frames) = 2
  /\ frames[1].pc = "done" /\ frames[2].pc = "done"
  /\ Len(conversation) = 4
  /\ conversation[2].role = "user" /\ conversation[3].role = "user"
  /\ conversation[4].role = "model"

\* C9: history entries are appended in submission order without
\* interleaving: the user entry of a turn is in the history before its
\* request is dispatched (the request already carries it), and a model
\* entry directly follows the user entry of the same turn.
C9_SubmissionOrder ==
  /\ Len(entryTurn) = Len(conversation)
  /\ \A k \in 2..Len(conversation) :
       /\ entryTurn[k - 1] <= entryTurn[k]
       /\ conversation[k].role = "model" =>
            /\ entryTurn[k - 1] = entryTurn[k]
            /\ conversation[k - 1].role = "user"
  /\ \A i \in 1..Len(frames) :
       /\ \E k \in 1..Len(conversation) :
            entryTurn[k] = i /\ conversation[k].role = "user"
       /\ conversation[UserEntryOf(i)].text = frames[i].trimmed
       /\ Len(fetches) >= i
       /\ fetches[i].history = SubSeq(conversation, 1, UserEntryOf(i))
       /\ \A j \in 1..Len(frames) : i < j => UserEntryOf(i) < UserEntryOf(j)

\* Two successful turns, one after the other.
C9_Witness ==
  /\ entryTurn = <<0, 1, 1, 2, 2>>
  /\ conversation[3].role = "model" /\ conversation[5].role = "model"

\* The contents the server builds for the upstream call from request body i
\* of the browser session.
ContentsOf(i) ==
  BuildGeminiPayload(RequestJson(fetches[i]).history,
                     Trim(RequestJson(fetches[i]).message.s))

\* The entries the history holds when turn i is submitted.
PriorTurns(i) == SubSeq(conversation, 1, UserEntryOf(i) - 1)

\* C10: the history a turn's request carries holds the entries of the
\* earlier turns only, the new message apart from them, so that the contents
\* built for the upstream call are those entries followed by the new user
\* message, which they hold once, as their last element.
C10_HistoryHoldsPriorTurnsOnly ==
  \A i \in 1..Len(fetches) :
    /\ fetches[i].history = PriorTurns(i)
    /\ fetches[i].message = conversation[UserEntryOf(i)].text
    /\ ContentsOf(i) = PriorTurns(i) \o <<[role |-> "user", text |-> fetches[i].message]>>

(***************************************************************************)
(* Properties of the /api/chat handler                                     *)
(***************************************************************************)
Responded == spc = "responded" /\ Len(responses) = 1
\* Attempt k of the current request got a response (it did not throw).
Answered(k) == Len(upstream) >= k /\ upstream[k].settled /\ ~upstream[k].threw

\* C3: the fallback model is requested if and only if the primary attempt
\* was answered unsuccessfully with status 404 and the two model names
\* differ; in every other case of a primary attempt exactly one upstream
\* request is made.
C3_FallbackIffNotFound ==
  (Len(upstream) >= 1 /\ upstream[1].settled) =>
     /\ upstream[1].model = primaryModel
     /\ IF /\ ~upstream[1].threw
           /\ ~StatusOk(upstream[1].status)
           /\ upstream[1].status = 404
           /\ primaryModel # fallbackModel
        THEN Len(upstream) = 2 /\ upstream[2].model = fallbackModel
        ELSE Len(upstream) = 1

\* The primary attempt was answered 404 and the fallback model was asked.
C3_Witness ==
  /\ Len(upstream) = 2
  /\ upstream[1].status = 404
  /\ upstream[2].model = fallbackModel /\ upstream[2].model # upstream[1].model
  /\ upstream[2].payload = upstream[1].payload

\* C4: when the primary attempt fails with 404 and the fallback attempt
\* fails too, the response has the fallback attempt's status and its details
\* are a text that starts with the whole body of the primary attempt and ends
\* with the whole body of the fallback attempt.
C4_BothDiagnosticsReported ==
  (Responded /\ Answered(1) /\ Answered(2) /\ ~StatusOk(upstream[2].status)) =>
     /\ responses[1].status = upstream[2].status
     /\ IsString(responses[1].details)
     /\ IsPrefix(upstream[1].text, responses[1].details.s)
     /\ IsSuffix(upstream[2].text, responses[1].details.s)
     /\ Len(responses[1].details.s) > Len(upstream[1].text) + Len(upstream[2].text)

\* Both attempts failed with bodies that, put end to end, are a JSON error
\* object.
C4_Witness ==
  /\ Responded /\ Answered(1) /\ Answered(2)
  /\ upstream[1].status = 404 /\ upstream[2].status = 500
  /\ JsonParse(upstream[1].text \o upstream[2].text).ok
  /\ responses[1].status = 500

\* The text of a notice that reports the use of the fallback model.
IsFallbackNotice(v) == IsString(v) /\ \E k \in 1..Len(v.s) : v.s[k] = " UNAVAILABLE, "

\* C5: when the primary attempt fails with 404 and the fallback attempt
\* succeeds, the response is the one made from the fallback attempt's data,
\* the model used is the fallback model and the notice names both models;
\* no other response carries a fallback notice.
C5_FallbackAnswerUsed ==
  Responded =>
    IF Answered(1) /\ Answered(2) /\ StatusOk(upstream[2].status)
    THEN /\ responses[1] =
              Reply(CallGeminiResult(fallbackModel, upstream[2].status, upstream[2].text),
                    fallbackModel, FallbackNotice)
         /\ activeModel = fallbackModel
         /\ result.ok /\ result.model = fallbackModel
         /\ responses[1].status = 200 =>
              /\ IsFallbackNotice(responses[1].notice)
              /\ \E k \in 1..Len(responses[1].notice.s) :
                   responses[1].notice.s[k] = primaryModel
              /\ \E k \in 1..Len(responses[1].notice.s) :
                   responses[1].notice.s[k] = fallbackModel
    ELSE ~IsFallbackNotice(responses[1].notice)

\* The fallback model answered after the primary model was not found.
C5_Witness ==
  /\ Responded /\ Answered(2)
  /\ upstream[1].status = 404
  /\ responses[1].status = 200
  /\ responses[1].reply = Str(<<"hello">>)
  /\ IsFallbackNotice(responses[1].notice)

\* The last attempt of the current request was answered with a successful
\* response, and the request has been answered.
Succeeded ==
  /\ Responded /\ Len(upstream) >= 1
  /\ Answered(Len(upstream)) /\ StatusOk(upstream[Len(upstream)].status)
\* The candidates of the successful response, in the order it holds them.
ReturnedCandidates ==
  LET last == upstream[Len(upstream)]
      cands == Get(CallGeminiResult(last.model, last.status, last.text).data, "candidates")
  IN IF IsArray(cands) THEN cands.a
     ELSE IF At(cands, 0) # Undef THEN <<At(cands, 0)>>
     ELSE <<>>
Extracted(i) == ExtractTextFromParts(PartsOf(ReturnedCandidates[i]))
YieldsText(i) == ~Extracted(i).threw /\ Extracted(i).text # <<>>
YieldsNothing(i) == ~Extracted(i).threw /\ Extracted(i).text = <<>>
\* Candidate i is the first that yields text, those before it yielding none.
FirstWithText(i) == YieldsText(i) /\ \A j \in 1..(i - 1) : YieldsNothing(j)

\* C11: from a successful upstream response the reply is the extracted text
\* of the first candidate, in the order returned, whose parts yield text:
\* candidates before it that yield none are skipped, and the candidates after
\* it have no effect on the response.
C11_FirstCandidateWithTextWins ==
  Succeeded =>
    /\ \A i \in 1..Len(ReturnedCandidates) :
         FirstWithText(i) =>
           /\ responses[1].status = 200
           /\ responses[1].reply = Str(Extracted(i).text)
    /\ responses[1].status = 200 =>
         \E i \in 1..Len(ReturnedCandidates) : FirstWithText(i)

\* The second of three candidates answered, the first yielding only blanks
\* and the third yielding text too.
C11_Witness ==
  /\ Succeeded
  /\ Len(ReturnedCandidates) = 3
  /\ YieldsNothing(1) /\ YieldsText(2) /\ YieldsText(3)
  /\ responses[1].reply = Str(<<"second">>)

\* The termination reasons the successful response supplies.
SuppliedReasons ==
  LET last == upstream[Len(upstream)]
      data == CallGeminiResult(last.model, last.status, last.text).data
  IN { r \in { Get(ReturnedCandidates[i], "finishReason") :
                 i \in 1..Len(ReturnedCandidates) }
              \cup { Get(Get(data, "promptFeedback"), "blockReason") } : Truthy(r) }

\* C12: when the upstream response is successful and no candidate yields
\* text, the request fails with status 502; the details report a termination
\* reason whenever the response supplies one (a candidate's finish reason or
\* the prompt feedback's block reason), and are the generic no-text detail
\* only when it supplies none.
C12_TerminationReasonReported ==
  (Succeeded /\ \A i \in 1..Len(ReturnedCandidates) : YieldsNothing(i)) =>
    /\ responses[1].status = 502
    /\ IF SuppliedReasons # {}
       THEN \E r \in SuppliedReasons :
              responses[1].details = Str(<<"STOP-REASON: ">> \o ToText(r))
       ELSE responses[1].details = Str(<<"NO-TEXT-IN-RESPONSE">>)

\* The message of the current request is missing, no string, or has no
\* character but white space.
MessageRejected ==
  \/ req.message.t # "str"
  \/ \A k \in 1..Len(req.message.s) : req.message.s[k] \in WhiteSpace

\* C13: a request whose message is missing, not a string or empty after
\* trimming is answered with status 400, and a request with a valid message
\* made while no API credential is configured is answered with status 503;
\* in both cases no upstream request is issued, and in no other case is a
\* request answered with one of the two.
C13_RejectedBeforeUpstream ==
  served >= 1 =>
    IF MessageRejected
    THEN Responded /\ responses[1].status = 400 /\ upstream = <<>>
    ELSE IF ~apiKey
    THEN Responded /\ responses[1].status = 503 /\ upstream = <<>>
    ELSE /\ Len(upstream) >= 1
         /\ Responded => responses[1].status \notin {400, 503}

\* A message of one blank was answered 400 although a credential is set.
C13_Witness ==
  /\ Responded /\ apiKey
  /\ req.message = Str(<<" ">>)
  /\ responses[1].status = 400 /\ upstream = <<>>

\* Processing the successful response raises an exception: a candidate that
\* is consulted holds inline data that is no text.
ProcessingFault ==
  /\ Succeeded
  /\ \E i \in 1..Len(ReturnedCandidates) :
       Extracted(i).threw /\ \A j \in 1..(i - 1) : YieldsNothing(j)

\* C14: an exception raised after validation (a transport failure of the
\* primary or of the fallback call, or a fault while the response is
\* processed) is answered with status 500 in the {error, details} shape, and
\* a request that has been served has exactly one response, a request in
\* progress none.
C14_ExceptionsAnswered ==
  /\ spc = "responded" => Len(responses) = 1
  /\ spc \in {"primary", "fallback"} => responses = <<>>
  /\ (Responded /\ Len(upstream) >= 1 /\ (upstream[Len(upstream)].threw \/ ProcessingFault)) =>
       /\ responses[1].status = 500
       /\ IsString(responses[1].error) /\ IsString(responses[1].details)
       /\ responses[1].reply = Undef /\ responses[1].notice = Undef

\* The fallback call failed in transport after the primary was answered 404.
C14_Witness ==
  /\ Responded /\ Len(upstream) = 2
  /\ upstream[1].status = 404 /\ ~upstream[1].threw
  /\ upstream[2].threw
  /\ responses[1].status = 500
(***************************************************************************)
(* Properties of the render pipeline                                       *)
(***************************************************************************)
\* The block kinds that are open in the parser.
OpenBlocks ==
  {k \in {"paragraph", "list", "blockquote", "fence"} :
     \/ k = "paragraph" /\ parser.paragraph # <<>>
     \/ k = "list" /\ parser.listType # ""
     \/ k = "blockquote" /\ parser.inBlockquote
     \/ k = "fence" /\ parser.fence # <<>>}

\* C15: the block parser has at most one block open after each consumed
\* line: of "paragraph accumulator non-empty", "a list open", "a blockquote
\* open" and "a code fence open" at most one holds; a paragraph-text line
\* that arrives while a list is open closes the list.
C15_OneOpenBlock == rpc = "lines" => Cardinality(OpenBlocks) <= 1

\* The line the parser consumes next, and the same with its trailing white
\* space removed.
RawLine == Head(lines)
Line == TrimEnd(Head(lines))
\* A line is about to be consumed while a fence is open.
InOpenFence == rpc = "lines" /\ lines # <<>> /\ parser.fence # <<>>
\* The backtick run that opened the fence.
Delimiter == SubSeq(parser.fence, 1, RunLen(parser.fence, {BACKTICK}))

\* C16: while a code fence is open a line closes it if and only if it equals
\* the backtick run of the opening line, also when that line carried a
\* language tag; every other line, one that merely begins with the delimiter
\* included, is accumulated as raw fence content.
C16_FenceClosedByDelimiterOnly ==
  [][InOpenFence =>
       IF Line = Delimiter
       THEN parser'.fence = <<>>
       ELSE /\ parser'.fence = parser.fence
            /\ parser'.codeLines = Append(parser.codeLines, RawLine)]_vars

\* The pre/code element of the fenced lines, its content escaped only.
CodeElement(codeLines) ==
  [open |-> "<pre><code>", via |-> "escapeHtml",
   arg |-> EscapeHtml(Join(codeLines, <<NL>>)), close |-> "</code></pre>"]

\* C17: a line consumed while a fence is open is classified as no heading,
\* list item, blockquote, rule, blank or paragraph line and is not passed to
\* the inline formatter: it is kept as raw fence content, or it ends the
\* fence, and the lines kept are emitted in one pre/code element with HTML
\* escaping only, also when the input ends before the fence does.
C17_FenceContentVerbatim ==
  [][/\ InOpenFence =>
          /\ parser'.paragraph = parser.paragraph
          /\ parser'.listType = parser.listType
          /\ parser'.inBlockquote = parser.inBlockquote
          /\ \/ /\ parser'.html = parser.html
                /\ parser'.codeLines = Append(parser.codeLines, RawLine)
                /\ parser'.fence = parser.fence
             \/ /\ parser'.html = Append(parser.html, CodeElement(parser.codeLines))
                /\ parser'.codeLines = <<>>
                /\ parser'.fence = <<>>
     /\ (rpc = "lines" /\ lines = <<>> /\ parser.fence # <<>>) =>
          rendered'.html = Append(parser.html, CodeElement(parser.codeLines))
                           \o (IF limited.truncated THEN <<TruncationNote>> ELSE <<>>)]_vars

\* A heading line between two fences came out in a pre/code element.
C17_Witness ==
  /\ rpc = "done"
  /\ limited.text = <<BACKTICK, BACKTICK, BACKTICK, NL, "#", " ", "h", NL,
                      BACKTICK, BACKTICK, BACKTICK>>
  /\ rendered.html = <<[open |-> "<pre><code>", via |-> "escapeHtml",
                        arg |-> <<"#", " ", "h">>, close |-> "</code></pre>"]>>

\* What markdownToHtml returned: the fragment without the truncation note.
Body ==
  IF rendered.note THEN SubSeq(rendered.html, 1, Len(rendered.html) - 1) ELSE rendered.html
\* The fallback: one paragraph around the escaped source.
FallbackParagraph(source) ==
  [open |-> "<p>", via |-> "escapeHtml", arg |-> EscapeHtml(source), close |-> "</p>"]
WhiteSpaceOnly(source) == \A k \in 1..Len(source) : source[k] \in WhiteSpace
\* The source is blank lines followed by a line that opens a fence, and ends
\* there.
UnterminatedEmptyFence(source) ==
  LET ls == SplitLines(Normalize(source))
  IN /\ OpensFence(TrimEnd(ls[Len(ls)]))
     /\ \A j \in 1..(Len(ls) - 1) : WhiteSpaceOnly(ls[j])

\* C18 as stated: the output of the block parser is never empty, and for a
\* source that is only white space or an unterminated empty fence it is
\* exactly one paragraph wrapping the escaped source.
C18_FallbackForEmptyFence ==
  rpc = "done" =>
    /\ Body # <<>>
    /\ (WhiteSpaceOnly(rendered.src) \/ UnterminatedEmptyFence(rendered.src)) =>
         Body = <<FallbackParagraph(rendered.src)>>

\* C18: the output of the block parser is never empty; when a pass produces
\* no blocks, as for a source that is empty or only white space, the output
\* is exactly one paragraph wrapping the escaped source; an unterminated
\* empty fence produces one empty pre/code element.
C18_NeverEmpty ==
  rpc = "done" =>
    /\ Body # <<>>
    /\ \A k \in 1..Len(Body) : Body[k].open # ""
    /\ CloseAtEnd(parser).html = <<>> => Body = <<FallbackParagraph(rendered.src)>>
    /\ WhiteSpaceOnly(rendered.src) => Body = <<FallbackParagraph(rendered.src)>>
    /\ UnterminatedEmptyFence(rendered.src) => Body = <<CodeElement(<<>>)>>

\* A source of a blank and a CR came out as the fallback paragraph.
C18_Witness ==
  /\ rpc = "done"
  /\ rendered.src = <<" ", CR>>
  /\ parser.html = <<>>
  /\ Body = <<[open |-> "<p>", via |-> "escapeHtml", arg |-> <<" ", CR>>, close |-> "</p>"]>>

\* C19 as stated: with a cap of 0 or an empty input the pipeline emits no
\* paragraph and no truncation notice.
C19_EmptyFragment ==
  (rpc = "done" /\ (maxChars = 0 \/ replyText = <<>>)) =>
    /\ limited.text = <<>>
    /\ \A k \in 1..Len(rendered.html) :
         rendered.html[k].open # "<p>" /\ rendered.html[k] # TruncationNote

\* C19: with a cap of 0 or an empty input limitMarkdown yields the empty
\* text; the pipeline then emits the one empty fallback paragraph, followed
\* by the truncation notice exactly when the input was not empty.
C19_EmptyTextRendered ==
  (rpc = "done" /\ (maxChars = 0 \/ replyText = <<>>)) =>
    /\ limited.text = <<>>
    /\ rendered.html =
         <<[open |-> "<p>", via |-> "escapeHtml", arg |-> <<>>, close |-> "</p>"]>>
         \o (IF replyText # <<>> THEN <<TruncationNote>> ELSE <<>>)

\* A text of two lines was rendered with a cap of 0.
C19_Witness ==
  /\ rpc = "done" /\ maxChars = 0
  /\ Len(SplitLines(replyText)) = 2
  /\ Len(rendered.html) = 2 /\ rendered.html[2] = TruncationNote

\* C20: the cap is applied to the raw text before parsing.  A text no
\* longer than the cap reaches the parser unchanged and no truncation notice
\* is appended; of a longer text the parser receives the first maxChars
\* characters without their trailing white space (so at most maxChars
\* characters), and the notice is appended after the parsed content.
C20_CapBeforeParsing ==
  /\ rpc \in {"lines", "done"} =>
       IF Len(replyText) <= maxChars
       THEN limited.text = replyText /\ ~limited.truncated
       ELSE /\ limited.truncated
            /\ Len(limited.text) <= maxChars
            /\ IsPrefix(limited.text, replyText)
            /\ limited.text # <<>> => limited.text[Len(limited.text)] \notin WhiteSpace
            /\ \A k \in (Len(limited.text) + 1)..maxChars : replyText[k] \in WhiteSpace
  /\ rpc = "done" =>
       /\ rendered.src = limited.text
       /\ Body # <<>> /\ \A k \in 1..Len(Body) : Body[k] # TruncationNote
       /\ IF Len(replyText) <= maxChars
          THEN rendered.html = Body
          ELSE rendered.html = Append(Body, TruncationNote)

\* A text was cut at the cap right after a line break, which was dropped.
C20_Witness ==
  /\ rpc = "done" /\ maxChars = SmallCap
  /\ Len(replyText) > maxChars /\ replyText[maxChars] = NL
  /\ Len(rendered.src) < maxChars
  /\ rendered.html[Len(rendered.html)] = TruncationNote

(***************************************************************************)
(* Properties of inline formatting                                         *)
(***************************************************************************)
Special == {"&", "<", ">", QUOTE, "'"}
Entities ==
  { <<"&", "a", "m", "p", ";">>, <<"&", "l", "t", ";">>, <<"&", "g", "t", ";">>,
    <<"&", "q", "u", "o", "t", ";">>, <<"&", "#", "3", "9", ";">> }
Tags ==
  {"<strong>", "</strong>", "<em>", "</em>", "<code>", "</code>", "</a>",
   AnchorOpen, AnchorAttrs}

\* No special character stands in out as itself: an ampersand there begins
\* an entity, the other four do not occur.
OnlyEscaped(out) ==
  \A k \in 1..Len(out) :
    /\ out[k] \notin (Special \ {"&"})
    /\ out[k] = "&" => \E e \in Entities : HasAt(out, k, e)

HasSpecial(text) == \E k \in 1..Len(text) : text[k] \in Special
HasEntity(out) == \E k \in 1..Len(out), e \in Entities : HasAt(out, k, e)

\* The direct call of formatInline has returned, and it ran the tokenizer.
InlineDone == ipc = "done"
Tokenized == InlineDone /\ inlineDepth <= DepthLimit /\ inlineText # <<>>
Links == { k \in 1..Len(inlineTokens) : inlineTokens[k].type = "link" }

\* C21: every & < > " ' of the text reaches the output of a render, and of
\* a call of formatInline at any depth, only as its entity, on every path:
\* plain text, strong and em content, link labels, accepted link targets,
\* inline code, fence content, the depth limit and the fallback paragraph.
C21_SpecialsEscaped ==
  /\ rpc = "done" =>
       \A k \in 1..Len(rendered.html) : OnlyEscaped(rendered.html[k].arg)
  /\ InlineDone => OnlyEscaped(inlineOut.html)

\* A link with a special character in its label and in its accepted target
\* has been emitted.
C21_Witness ==
  /\ Tokenized
  /\ \E k \in Links :
       /\ HasSpecial(inlineTokens[k].value)
       /\ HasSpecial(inlineTokens[k].href)
       /\ SanitizeUrl(inlineTokens[k].href) # Placeholder
  /\ HasEntity(inlineOut.html)
  /\ AnchorOpen \in { inlineOut.html[k] : k \in 1..Len(inlineOut.html) }

\* The n-th element of a set of numbers.
Nth(S, n) == CHOOSE k \in S : Cardinality({ j \in S : j < k }) = n - 1

\* The target emitted for the n-th link of the output: what stands between
\* the opening of the anchor and the rest of its attributes.
Anchors(out) == { k \in 1..Len(out) : out[k] = AnchorOpen }
TargetOf(out, n) ==
  LET k == Nth(Anchors(out), n)
      j == CHOOSE j \in (k + 1)..Len(out) :
             out[j] = AnchorAttrs /\ \A i \in (k + 1)..(j - 1) : out[i] # AnchorAttrs
  IN SubSeq(out, k + 1, j - 1)

StartsWithScheme(href) == \E scheme \in Schemes : IsPrefix(scheme, Lower(href))

\* C22 as stated: a link whose href does not start with http:, https: or
\* mailto:, whatever the case of the letters, gets the target "#"; any other
\* link gets its href, escaped.
C22_RejectedByPrefix ==
  Tokenized =>
    /\ Cardinality(Anchors(inlineOut.html)) = Cardinality(Links)
    /\ \A n \in 1..Cardinality(Links) :
         LET href == inlineTokens[Nth(Links, n)].href
             target == TargetOf(inlineOut.html, n)
         IN IF StartsWithScheme(href) THEN target = EscapeHtml(href)
            ELSE target = Placeholder

\* C22: a link whose href, with the white space around it removed, does not
\* start with http:, https: or mailto:, whatever the case of the letters,
\* gets the target "#" and never its own href; any other link gets its
\* trimmed href, escaped.
C22_RejectedByTrimmedPrefix ==
  Tokenized =>
    /\ Cardinality(Anchors(inlineOut.html)) = Cardinality(Links)
    /\ \A n \in 1..Cardinality(Links) :
         LET href == Trim(inlineTokens[Nth(Links, n)].href)
             target == TargetOf(inlineOut.html, n)
         IN IF StartsWithScheme(href) THEN target = EscapeHtml(href)
            ELSE target = Placeholder

\* A link to javascript: has been emitted with the target "#".
C22_Witness ==
  /\ Tokenized
  /\ \E n \in 1..Cardinality(Links) :
       /\ IsPrefix(<<"j", "a", "v", "a">>, inlineTokens[Nth(Links, n)].href)
       /\ TargetOf(inlineOut.html, n) = Placeholder

\* The characters of the text a token was cut from.
SourceOf(token) == SubSeq(inlineText, token.from, token.to)
Markers(token) ==
  CASE token.type = "strong" -> {<<"*", "*">>, <<"_", "_">>}
    [] token.type = "em" -> {<<"*">>, <<"_">>}
    [] token.type = "code" -> {<<BACKTICK>>}
    [] OTHER -> {}
KeepsSource(token) ==
  CASE token.type = "text" -> token.value = SourceOf(token)
    [] token.type = "link" ->
         SourceOf(token) = <<"[">> \o token.value \o <<"]", "(">>
                             \o token.href \o <<")">>
    [] OTHER -> \E m \in Markers(token) : SourceOf(token) = m \o token.value \o m
Occurrences(text, c) == { k \in 1..Len(text) : text[k] = c }

\* C23: the tokens of a line partition it: their ranges follow one another
\* from the first character to the last without gap or overlap, each token
\* holds the characters of its range, and a marker with no partner is in a
\* text token or inside another token, never at the head of a span.
C23_TokensPartitionLine ==
  Tokenized =>
    /\ inlineTokens # <<>>
    /\ inlineTokens[1].from = 1
    /\ inlineTokens[Len(inlineTokens)].to = Len(inlineText)
    /\ \A k \in 1..Len(inlineTokens) :
         /\ inlineTokens[k].from <= inlineTokens[k].to
         /\ k > 1 => inlineTokens[k].from = inlineTokens[k - 1].to + 1
         /\ KeepsSource(inlineTokens[k])
    /\ \A c \in {"*", "_", BACKTICK} :
         \A p \in Occurrences(inlineText, c) :
           Cardinality(Occurrences(inlineText, c)) = 1 =>
             \E k \in 1..Len(inlineTokens) :
               /\ inlineTokens[k].from <= p /\ p <= inlineTokens[k].to
               /\ \/ inlineTokens[k].type = "text"
                  \/ inlineTokens[k].from < p /\ p < inlineTokens[k].to

\* A line that opens with a star nothing closes, and has a code span later:
\* the star is in the text token, the code span is still found.
C23_Witness ==
  /\ Tokenized
  /\ Len(inlineTokens) = 2
  /\ inlineTokens[1].type = "text"
  /\ inlineTokens[1].value[1] = "*"
  /\ Cardinality(Occurrences(inlineText, "*")) = 1
  /\ inlineTokens[2].type = "code"

\* C24: formatInline never runs its tokenizer at a depth above 4, and a call
\* at a depth above 4 returns the escaped text, with no tag in it.
C24_DepthBounded ==
  InlineDone =>
    /\ \A d \in inlineOut.depths : d <= 4
    /\ inlineDepth > 4 =>
         /\ inlineTokens = <<>>
         /\ inlineOut.html = EscapeHtml(inlineText)
         /\ \A k \in 1..Len(inlineOut.html) : inlineOut.html[k] \notin Tags

\* A call at depth 4 found a strong span with an em span in it: the content
\* went to a call at depth 5, which gave it back without the em tag.
C24_Witness ==
  /\ Tokenized
  /\ inlineDepth = 4
  /\ \E k \in 1..Len(inlineTokens) :
       /\ inlineTokens[k].type = "strong"
       /\ Tokenize(inlineTokens[k].value)[1].type = "em"
  /\ "<strong>" \in { inlineOut.html[k] : k \in 1..Len(inlineOut.html) }
  /\ "<em>" \notin { inlineOut.html[k] : k \in 1..Len(inlineOut.html) }


(***************************************************************************)
(* Properties of repeated renders                                          *)
(***************************************************************************)
\* The loop of markdownToHtml has not consumed a line yet.
AtLoopStart == rpc = "lines" /\ lines = SplitLines(Normalize(limited.text))

\* C25: a render of a text under a cap gives the fragment every earlier
\* render of that text under that cap gave, whatever was rendered in
\* between, and the parser starts each render with nothing open and nothing
\* accumulated.
C25_SameInputSameFragment ==
  /\ rpc = "done" =>
       \A k \in 1..Len(past) :
         past[k].text = replyText /\ past[k].cap = maxChars
           => past[k].html = rendered.html
  /\ AtLoopStart => parser = ParserStart

\* The third render is of the text and cap of the first, the second was of
\* another text and gave another fragment.
C25_Witness ==
  /\ rpc = "done"
  /\ Len(past) = 2
  /\ past[1].text = replyText /\ past[1].cap = maxChars
  /\ past[2].text # replyText
  /\ past[2].html # rendered.html
  /\ Len(rendered.html) > 1


(***************************************************************************)
(* Properties of the upstream attempts                                     *)
(***************************************************************************)
Pending == { k \in 1..Len(upstream) : ~upstream[k].settled }

\* C26: a chat request makes at most two upstream requests, never two at a
\* time, and the second, to the fallback model, only once the response of
\* the first has been read.
C26_AttemptsInSequence ==
  /\ Len(upstream) <= 2
  /\ Cardinality(Pending) <= 1
  /\ Len(upstream) = 2 =>
       /\ upstream[1].settled /\ ~upstream[1].threw
       /\ upstream[1].model = primaryModel
       /\ upstream[2].model = fallbackModel

\* The fallback request is in flight, the primary's response has been read.
C26_Witness ==
  /\ spc = "fallback"
  /\ Len(upstream) = 2
  /\ Pending = {2}
  /\ upstream[1].status = 404

\* C27: the object an upstream attempt returned holds what the attempt
\* produced for as long as the request lasts; after two failures the primary
\* attempt's object still has its own status and detail.
C27_ResultsNeverModified ==
  \A k \in 1..Len(objects) :
    objects[k] = CallGeminiResult(upstream[k].model, upstream[k].status,
                                  upstream[k].text)


(***************************************************************************)
(* Properties of the blocks the parser emits                               *)
(***************************************************************************)
\* The kind of list item the line about to be consumed is, "" when it is
\* none: it is outside a fence and opens none, is not blank, no quote, no
\* heading and no rule, and carries a list marker.
ItemKind ==
  IF /\ rpc = "lines" /\ lines # <<>>
     /\ parser.fence = <<>> /\ ~OpensFence(Line)
     /\ Trim(Line) # <<>> /\ Head(Line) # ">"
     /\ HeadingLevel(Line) = 0 /\ ~IsRule(Line)
  THEN (IF IsUnordered(Line) THEN "ul" ELSE IF IsOrdered(Line) THEN "ol" ELSE "")
  ELSE ""

IsTag(piece, tags) == piece.via = "literal" /\ piece.open \in tags
ListTags == {"<ul>", "</ul>", "<ol>", "</ol>"}
\* The tags among tags in html, in their order.
RECURSIVE TagsFrom(_, _, _)
TagsFrom(html, i, tags) ==
  IF i > Len(html) THEN <<>>
  ELSE (IF IsTag(html[i], tags) THEN <<html[i].open>> ELSE <<>>)
         \o TagsFrom(html, i + 1, tags)
TagsIn(html, tags) == TagsFrom(html, 1, tags)
OpenTag(kind) == "<" \o kind \o ">"
CloseTag(kind) == "</" \o kind \o ">"

\* C28: a list item appends its li last; when a list of its kind is open no
\* list tag comes with it; otherwise the open list, if any, is closed and a
\* list of the item's kind is opened before the li.
C28_ListSwitchesOnKind ==
  [][ItemKind # "" /\ lines' = Tail(lines) =>
       LET kind == ItemKind
           added == SubSeq(parser'.html, Len(parser.html) + 1, Len(parser'.html))
       IN /\ IsPrefix(parser.html, parser'.html)
          /\ added # <<>>
          /\ added[Len(added)].open = "<li>"
          /\ added[Len(added)].via = "formatInline"
          /\ parser'.listType = kind
          /\ TagsIn(added, ListTags) =
               (IF parser.listType = kind THEN <<>>
                ELSE IF parser.listType = "" THEN <<OpenTag(kind)>>
                ELSE <<CloseTag(parser.listType), OpenTag(kind)>>)]_vars

\* An ordered item has arrived while an unordered list was open, and another
\* ordered item after it.
C28_Witness ==
  /\ rpc = "lines"
  /\ parser.listType = "ol"
  /\ \E n \in 1..(Len(parser.html) - 3) :
       /\ IsTag(parser.html[n], {"</ul>"})
       /\ IsTag(parser.html[n + 1], {"<ol>"})
       /\ parser.html[n + 2].open = "<li>"
       /\ parser.html[n + 3].open = "<li>"


BlockTags == {"<ul>", "</ul>", "<ol>", "</ol>", "<blockquote>", "</blockquote>"}
Opening == {"<ul>", "<ol>", "<blockquote>"}
Closes(tag) ==
  CASE tag = "</ul>" -> "<ul>" [] tag = "</ol>" -> "<ol>"
    [] tag = "</blockquote>" -> "<blockquote>" [] OTHER -> ""

\* html from piece i on is well nested under the opening tags of stack (the
\* innermost last): a closing tag closes the innermost open element, an li
\* has a list as its innermost open element, nothing is open at the end.
RECURSIVE WellNested(_, _, _)
WellNested(html, i, stack) ==
  IF i > Len(html) THEN stack = <<>>
  ELSE IF IsTag(html[i], Opening)
  THEN WellNested(html, i + 1, Append(stack, html[i].open))
  ELSE IF IsTag(html[i], BlockTags)
  THEN /\ stack # <<>>
       /\ stack[Len(stack)] = Closes(html[i].open)
       /\ WellNested(html, i + 1, SubSeq(stack, 1, Len(stack) - 1))
  ELSE /\ html[i].open = "<li>" =>
            stack # <<>> /\ stack[Len(stack)] \in {"<ul>", "<ol>"}
       /\ WellNested(html, i + 1, stack)

\* C29: the blocks of a finished render are balanced and well nested: each
\* ul, ol and blockquote opened is closed once, in the reverse order of
\* opening, each li is inside a list, and the parser has no paragraph, list,
\* blockquote or fence open.
C29_BlocksBalanced ==
  rpc = "done" => WellNested(Body, 1, <<>>) /\ OpenBlocks = {}

\* A blockquote, an unordered list and an ordered list have been emitted,
\* the last one closed by the end of the input.
C29_Witness ==
  /\ rpc = "done"
  /\ TagsIn(Body, BlockTags) =
       <<"<blockquote>", "</blockquote>", "<ul>", "</ul>", "<ol>", "</ol>">>
  /\ IsTag(Body[Len(Body)], {"</ol>"})


(***************************************************************************)
(* Properties of the entry a rendered reply leaves in the history          *)
(***************************************************************************)
\* C30: the model entry pushed after a reply is rendered holds the reply as
\* it was before the cap was applied; a cut shortens the text the fragment
\* is made from and marks the fragment, and leaves the entry's text whole.
C30_EntryHoldsUncappedReply ==
  rpc = "done" =>
    /\ modelEntry = [role |-> "model", text |-> replyText]
    /\ limited.truncated =>
         /\ Len(rendered.src) <= maxChars
         /\ rendered.src # modelEntry.text
         /\ rendered.note

\* A reply longer than the cap has been cut, rendered and pushed.
C30_Witness ==
  /\ rpc = "done"
  /\ limited.truncated
  /\ Len(modelEntry.text) > maxChars
  /\ Len(rendered.src) < Len(modelEntry.text)
  /\ IsPrefix(rendered.src, modelEntry.text)

====
